---------------------------- MODULE Spec2Model ----------------------------
(***************************************************************************)
(* A model of the mikan-os kernel core: the bitmap frame allocator, the    *)
(* 4-level page-map builder, the ELF64 loader, the terminal, the terminal  *)
(* task's message loop and the layer manager (src/kernel/terminal.cpp and  *)
(* the headers it uses).                                                   *)
(*                                                                         *)
(* Scaling.  A page-map table has TableSize entries (512 in the source),   *)
(* a page has PageSize bytes (4096 in the source), physical memory has     *)
(* NumFrames frames.  The index "511" of the source is LastIndex and the   *)
(* address 0xffff800000000000 is UpperHalfBase, the first address whose    *)
(* PML4 index is in the upper half of the table.  Linear addresses are the *)
(* integers 0 .. AddrSpace-1; the sign-extension bits of a canonical       *)
(* 64-bit address are dropped, so the 64-bit wrap-around of the source is  *)
(* arithmetic modulo AddrSpace.                                            *)
(***************************************************************************)
EXTENDS Integers, Sequences, FiniteSets, TLC

VARIABLES
    alloc_map_,     \* BitmapMemoryManager::alloc_map_: frame -> allocated?
    page_mem,       \* physical memory read as page-map tables: frame -> index -> entry
    pg,             \* the driver's record of its last call (SpecPaging,
                    \* SpecAlloc); in SpecPci the PCI configuration space
                    \* and the result of ScanAllBus
    terminal,       \* the Terminal object of the terminal task
    volume,         \* the FAT volume (fat::boot_volume_image), read-only
    stop,           \* "run", or why the terminal task makes no further step
    ex,             \* record of the last Terminal::ExecuteFile call
    last,           \* the last call of a Terminal method and what it returned
    pc,             \* the position of the terminal task in TaskTerminal
    interrupt_flag, \* RFLAGS.IF of the terminal task
    task_state,     \* "running" or "sleeping"
    mailbox,        \* the terminal task's message queue
    main_mailbox,   \* the message queue of task 1
    msg,            \* the local msg of TaskTerminal
    layers,         \* layer position, active layer and layer_task_map; in
                    \* SpecLayer the LayerManager object
    posted,         \* number of messages sent to the terminal task so far
    consumed,       \* the messages ReceiveMessage returned, in order
    handled         \* what the switch did with each of them, in order

mem_vars == <<alloc_map_, page_mem>>
term_vars == <<terminal, volume, stop, ex, last>>
task_vars == <<pc, interrupt_flag, task_state, mailbox, main_mailbox, msg, layers,
               posted, consumed, handled>>
vars == <<alloc_map_, page_mem, pg, terminal, volume, stop, ex, last,
          pc, interrupt_flag, task_state, mailbox, main_mailbox, msg, layers,
          posted, consumed, handled>>

-----------------------------------------------------------------------------
(* Bounds *)
TableSize == 4
PageSize == 2
NumFrames == 11

LastIndex == TableSize - 1
Frames == 0 .. (NumFrames - 1)
Indexes == 0 .. LastIndex

-----------------------------------------------------------------------------
\* The one element of a one-element set.  Only({F(x) : x \in {e}}) is F(e) with
\* e evaluated once.
Only(S) == CHOOSE x \in S : TRUE

(* Error kinds (error.hpp) *)
kSuccess == "kSuccess"
kNoEnoughMemory == "kNoEnoughMemory"
kInvalidFormat == "kInvalidFormat"
kFull == "kFull"

-----------------------------------------------------------------------------
(* BitmapMemoryManager *)

\* The first frame of the manageable window.  Frame 0 is low memory that is
\* never handed out and frame 1 holds the PML4 table CR3 points to.
range_begin_ == 2
range_end_ == NumFrames

RangeFree(am, start, n) ==
    /\ start + n <= range_end_
    /\ \A i \in start .. (start + n - 1) : ~am[i]

\* Allocate taking the highest run that fits instead of the lowest.
AllocateLastFit(am, num_frames) ==
    LET fits == {s \in range_begin_ .. (range_end_ - 1) : RangeFree(am, s, num_frames)}
    IN  IF fits = {}
        THEN [value |-> -1, error |-> kNoEnoughMemory, alloc |-> am]
        ELSE LET s == CHOOSE x \in fits : \A y \in fits : x >= y
             IN  [value |-> s, error |-> kSuccess,
                  alloc |-> [f \in Frames |->
                               IF f >= s /\ f < s + num_frames THEN TRUE ELSE am[f]]]

\* Free clearing one bit more than it was asked to.
FreeOneMore(am, start_frame, num_frames) ==
    [f \in Frames |->
        IF f >= start_frame /\ f <= start_frame + num_frames THEN FALSE ELSE am[f]]

\* Allocate(num_frames): first fit from range_begin_.
Allocate(am, num_frames) ==
    LET fits == {s \in range_begin_ .. (range_end_ - 1) : RangeFree(am, s, num_frames)}
    IN  IF fits = {}
        THEN [value |-> -1, error |-> kNoEnoughMemory, alloc |-> am]
        ELSE LET s == CHOOSE x \in fits : \A y \in fits : x <= y
             IN  [value |-> s, error |-> kSuccess,
                  alloc |-> [f \in Frames |->
                               IF f >= s /\ f < s + num_frames THEN TRUE ELSE am[f]]]

\* Free(start_frame, num_frames): clears the bits, always succeeds.
Free(am, start_frame, num_frames) ==
    [f \in Frames |->
        IF f >= start_frame /\ f < start_frame + num_frames THEN FALSE ELSE am[f]]

FreeSet(am) == {f \in Frames : ~am[f]}

-----------------------------------------------------------------------------
(* PageMapEntry and LinearAddress4Level *)

ZeroEntry == [present |-> FALSE, writable |-> FALSE, addr |-> 0]
ZeroTable == [i \in Indexes |-> ZeroEntry]

kPML4Frame == 1     \* GetCR3() / kBytesPerFrame

LevelUnit(level) == PageSize * (TableSize ^ (level - 1))
AddrSpace == LevelUnit(5)

\* LinearAddress4Level::Part(page_map_level)
Part(addr, level) == (addr \div LevelUnit(level)) % TableSize

\* LinearAddress4Level::SetPart(page_map_level, value)
SetPart(addr, level, value) ==
    addr - Part(addr, level) * LevelUnit(level) + value * LevelUnit(level)

MakeAddr(pml4, pdp, pd, pt, offset) ==
    pml4 * LevelUnit(4) + pdp * LevelUnit(3) + pd * LevelUnit(2)
      + pt * LevelUnit(1) + offset

UpperHalfBase == MakeAddr(TableSize \div 2, 0, 0, 0, 0)

-----------------------------------------------------------------------------
(* Page-map builder.  A memory state is a record [alloc, mem]. *)

\* NewPageMap(): allocate one frame and zero its 512 entries.
NewPageMapFrom(st, frame) ==
    IF frame.error # kSuccess
    THEN [alloc |-> st.alloc, mem |-> st.mem, value |-> 0, error |-> frame.error]
    ELSE [alloc |-> frame.alloc,
          mem |-> [st.mem EXCEPT ![frame.value] = ZeroTable],
          value |-> frame.value, error |-> kSuccess]

NewPageMap(st) == Only({ NewPageMapFrom(st, frame) : frame \in {Allocate(st.alloc, 1)} })

\* SetNewPageMapIfNotPresent(entry), entry being page_map[index].
SetChildMap(r, page_map, index) ==
    IF r.error # kSuccess
    THEN [alloc |-> r.alloc, mem |-> r.mem, value |-> 0, error |-> r.error]
    ELSE [alloc |-> r.alloc,
          mem |-> [r.mem EXCEPT ![page_map][index] =
                     [@ EXCEPT !.addr = r.value, !.present = TRUE]],
          value |-> r.value, error |-> kSuccess]

SetNewPageMapIfNotPresent(st, page_map, index) ==
    IF st.mem[page_map][index].present
    THEN [alloc |-> st.alloc, mem |-> st.mem,
          value |-> st.mem[page_map][index].addr, error |-> kSuccess]
    ELSE Only({ SetChildMap(r, page_map, index) : r \in {NewPageMap(st)} })

\* addr.SetPart(page_map_level, entry_index + 1) and the lower parts set to 0.
RECURSIVE ZeroLowerParts(_, _)
ZeroLowerParts(addr, level) ==
    IF level < 1 THEN addr
    ELSE ZeroLowerParts(SetPart(addr, level, 0), level - 1)

\* The next entry's address with the lower parts left as they are.
NextEntryAddrKeepsLower(addr, page_map_level, entry_index) ==
    SetPart(addr, page_map_level, entry_index + 1)

NextEntryAddr(addr, page_map_level, entry_index) ==
    ZeroLowerParts(SetPart(addr, page_map_level, entry_index + 1), page_map_level - 1)

\* SetupPageMap(page_map, page_map_level, addr, num_4kpages).  One call of
\* SetupPageMap is the rest of the while loop from its current iteration on;
\* SetupEntry continues an iteration after SetNewPageMapIfNotPresent returned
\* c, and SetupNext after the level-1 decrement or the nested call returned sub.
RECURSIVE SetupPageMap(_, _, _, _, _)
RECURSIVE SetupEntry(_, _, _, _, _)
RECURSIVE SetupNext(_, _, _, _, _)

SetupPageMap(st, page_map, page_map_level, addr, num_4kpages) ==
    IF num_4kpages <= 0
    THEN [alloc |-> st.alloc, mem |-> st.mem, value |-> num_4kpages, error |-> kSuccess]
    ELSE Only({ SetupEntry(c, page_map, page_map_level, addr, num_4kpages) :
                c \in {SetNewPageMapIfNotPresent(st, page_map,
                                                 Part(addr, page_map_level))} })

SetupEntry(c, page_map, page_map_level, addr, num_4kpages) ==
    IF c.error # kSuccess
    THEN [alloc |-> c.alloc, mem |-> c.mem, value |-> num_4kpages, error |-> c.error]
    ELSE Only({ SetupNext(sub, page_map, page_map_level, addr, num_4kpages) :
                sub \in { IF page_map_level = 1
                          THEN [alloc |-> c.alloc,
                                mem |-> [c.mem EXCEPT
                                  ![page_map][Part(addr, page_map_level)].writable = TRUE],
                                value |-> num_4kpages - 1, error |-> kSuccess]
                          ELSE SetupPageMap(
                                 [alloc |-> c.alloc,
                                  mem |-> [c.mem EXCEPT
                                    ![page_map][Part(addr, page_map_level)].writable = TRUE]],
                                 c.value, page_map_level - 1, addr, num_4kpages) } })

SetupNext(sub, page_map, page_map_level, addr, num_4kpages) ==
    IF sub.error # kSuccess
    THEN [alloc |-> sub.alloc, mem |-> sub.mem, value |-> num_4kpages,
          error |-> sub.error]
    ELSE IF Part(addr, page_map_level) = LastIndex
    THEN sub
    ELSE SetupPageMap([alloc |-> sub.alloc, mem |-> sub.mem], page_map, page_map_level,
                      NextEntryAddr(addr, page_map_level, Part(addr, page_map_level)),
                      sub.value)

\* SetupPageMaps(addr, num_4kpages): the error of the level-4 call alone.
SetupPageMaps(st, addr, num_4kpages) ==
    Only({ [alloc |-> r.alloc, mem |-> r.mem, error |-> r.error] :
           r \in {SetupPageMap(st, kPML4Frame, 4, addr, num_4kpages)} })

\* CleanPageMap(page_map, page_map_level): CleanPageMapFrom is entries
\* i .. 511 of the for loop, CleanEntry the body for a present entry once the
\* nested call returned st1.
RECURSIVE CleanPageMapFrom(_, _, _, _)
RECURSIVE CleanEntry(_, _, _, _)

CleanPageMapFrom(st, page_map, page_map_level, i) ==
    IF i > LastIndex THEN st
    ELSE IF ~st.mem[page_map][i].present
    THEN CleanPageMapFrom(st, page_map, page_map_level, i + 1)
    ELSE Only({ CleanEntry(st1, page_map, page_map_level, i) :
                st1 \in { IF page_map_level > 1
                          THEN CleanPageMapFrom(st, st.mem[page_map][i].addr,
                                                page_map_level - 1, 0)
                          ELSE st } })

CleanEntry(st1, page_map, page_map_level, i) ==
    CleanPageMapFrom([alloc |-> Free(st1.alloc, st1.mem[page_map][i].addr, 1),
                      mem |-> [st1.mem EXCEPT ![page_map][i] = ZeroEntry]],
                     page_map, page_map_level, i + 1)

CleanPageMap(st, page_map, page_map_level) ==
    CleanPageMapFrom(st, page_map, page_map_level, 0)

\* CleanPageMaps cleaning the whole PML4 instead of the entry of addr.
CleanPageMapsWhole(st, addr) ==
    Only({ [alloc |-> st2.alloc, mem |-> st2.mem, error |-> kSuccess] :
           st2 \in {CleanPageMap(st, kPML4Frame, 4)} })

\* CleanPageMaps(addr)
CleanPageMaps(st, addr) ==
    Only({ [alloc |-> Free(st2.alloc, st.mem[kPML4Frame][Part(addr, 4)].addr, 1),
            mem |-> st2.mem, error |-> kSuccess] :
           st2 \in { CleanPageMap(
                       [alloc |-> st.alloc,
                        mem |-> [st.mem EXCEPT ![kPML4Frame][Part(addr, 4)] = ZeroEntry]],
                       st.mem[kPML4Frame][Part(addr, 4)].addr, 3) } })

\* The page-map walk of the MMU: the frame a linear address maps to through
\* present entries, or -1.
RECURSIVE Walk(_, _, _, _)
Walk(mem, page_map, level, addr) ==
    LET e == mem[page_map][Part(addr, level)]
    IN  IF ~e.present THEN -1
        ELSE IF level = 1 THEN e.addr
        ELSE Walk(mem, e.addr, level - 1, addr)

RECURSIVE WalkWritable(_, _, _, _)
WalkWritable(mem, page_map, level, addr) ==
    LET e == mem[page_map][Part(addr, level)]
    IN  /\ e.present
        /\ e.writable
        /\ (level = 1 \/ WalkWritable(mem, e.addr, level - 1, addr))

PageMapped(mem, addr) == WalkWritable(mem, kPML4Frame, 4, addr)

-----------------------------------------------------------------------------
(* ELF64 loader.  An image is [e_type, phdrs, file]: phdrs the sequence of  *)
(* program headers [p_type, p_vaddr, p_memsz, p_filesz, p_offset] and file  *)
(* the bytes of the file buffer, file[o + 1] the byte at offset o.          *)

ET_EXEC == "ET_EXEC"
PT_LOAD == "PT_LOAD"

SetMin(S) == CHOOSE x \in S : \A y \in S : x <= y
SetMax(S) == CHOOSE x \in S : \A y \in S : x >= y

Range(seq) == {seq[i] : i \in 1 .. Len(seq)}
LoadHeaders(ehdr) == {h \in Range(ehdr.phdrs) : h.p_type = PT_LOAD}

\* GetFirstLoadAddress(ehdr, file_buf, &first_addr): the p_vaddr of the first
\* PT_LOAD header in header order; first_addr keeps its value when there is none.
GetFirstLoadAddress(ehdr, first_addr) ==
    IF \E i \in 1 .. Len(ehdr.phdrs) : ehdr.phdrs[i].p_type = PT_LOAD
    THEN ehdr.phdrs[SetMin({i \in 1 .. Len(ehdr.phdrs) :
                              ehdr.phdrs[i].p_type = PT_LOAD})].p_vaddr
    ELSE first_addr

\* The first loop of CopyLoadSegments (uint64_t arithmetic).
VaddrMin(ehdr) == SetMin({AddrSpace - 1} \cup {h.p_vaddr : h \in LoadHeaders(ehdr)})
VaddrMax(ehdr) ==
    SetMax({0} \cup {(h.p_vaddr + h.p_memsz) % AddrSpace : h \in LoadHeaders(ehdr)})
TotalRange(ehdr) == (VaddrMax(ehdr) - VaddrMin(ehdr)) % AddrSpace
Num4kPages(ehdr) == ((TotalRange(ehdr) + PageSize - 1) % AddrSpace) \div PageSize

\* The addresses memcpy(dst, src, p_filesz) writes for header h, and those
\* memset(dst + p_filesz, 0, p_memsz - p_filesz) writes.  The size of the
\* memset is a size_t: with p_filesz > p_memsz it wraps around to nearly 2^64.
CopiedBytesWhole(h) == {(h.p_vaddr + i) % AddrSpace : i \in 0 .. (h.p_memsz - 1)}
CopiedBytes(h) == {(h.p_vaddr + i) % AddrSpace : i \in 0 .. (h.p_filesz - 1)}
ZeroedBytes(h) == {(h.p_vaddr + i) % AddrSpace : i \in h.p_filesz .. (h.p_memsz - 1)}
MemsetWraps(h) == h.p_filesz > h.p_memsz

\* The addresses the second loop of CopyLoadSegments writes.
SegmentBytes(ehdr) ==
    UNION { CopiedBytes(h) \cup ZeroedBytes(h) : h \in LoadHeaders(ehdr) }

PagePresent(mem, addr) == Walk(mem, kPML4Frame, 4, addr) # -1

\* The memcpy and the memset of one header, on the memory contents data
\* (linear address -> byte, for the addresses written so far).
WriteSegment(data, h, file) ==
    [a \in DOMAIN data \cup CopiedBytes(h) \cup ZeroedBytes(h) |->
        IF a \in CopiedBytes(h)
        THEN file[h.p_offset + ((a - h.p_vaddr) % AddrSpace) + 1]
        ELSE IF a \in ZeroedBytes(h) THEN 0
        ELSE data[a]]

\* The second loop of CopyLoadSegments from header i on.
RECURSIVE CopyFrom(_, _, _)
CopyFrom(data, ehdr, i) ==
    IF i > Len(ehdr.phdrs) THEN data
    ELSE CopyFrom(IF ehdr.phdrs[i].p_type = PT_LOAD
                  THEN WriteSegment(data, ehdr.phdrs[i], ehdr.file)
                  ELSE data,
                  ehdr, i + 1)

\* CopyLoadSegments(ehdr, file_buf).  A write to an address whose page is not
\* present raises a page fault in the kernel, and so does the memset of a
\* wrapped-around size: the call does not return (fault = TRUE).
CopySegments(r, ehdr) ==
    IF r.error # kSuccess
    THEN [alloc |-> r.alloc, mem |-> r.mem, error |-> r.error, fault |-> FALSE,
          data |-> <<>>]
    ELSE IF \/ \E h \in LoadHeaders(ehdr) : MemsetWraps(h)
            \/ \E a \in SegmentBytes(ehdr) : ~PagePresent(r.mem, a)
    THEN [alloc |-> r.alloc, mem |-> r.mem, error |-> kSuccess, fault |-> TRUE,
          data |-> <<>>]
    ELSE [alloc |-> r.alloc, mem |-> r.mem, error |-> kSuccess, fault |-> FALSE,
          data |-> CopyFrom(<<>>, ehdr, 1)]

\* CopyLoadSegments giving back the frames when SetupPageMaps fails.
CopyLoadSegmentsFreeing(st, ehdr) ==
    Only({ IF r.error # kSuccess
           THEN [alloc |-> st.alloc, mem |-> r.mem, error |-> r.error, fault |-> FALSE,
                 data |-> <<>>]
           ELSE CopySegments(r, ehdr) :
           r \in {SetupPageMaps(st, VaddrMin(ehdr), Num4kPages(ehdr))} })

CopyLoadSegments(st, ehdr) ==
    Only({ CopySegments(r, ehdr) :
           r \in {SetupPageMaps(st, VaddrMin(ehdr), Num4kPages(ehdr))} })

\* LoadElf(ehdr, file_buf)
LoadElf(st, ehdr) ==
    IF ehdr.e_type # ET_EXEC
    THEN [alloc |-> st.alloc, mem |-> st.mem, error |-> kInvalidFormat, fault |-> FALSE,
          data |-> <<>>]
    ELSE IF GetFirstLoadAddress(ehdr, 0) < UpperHalfBase
    THEN [alloc |-> st.alloc, mem |-> st.mem, error |-> kInvalidFormat, fault |-> FALSE,
          data |-> <<>>]
    ELSE CopyLoadSegments(st, ehdr)

-----------------------------------------------------------------------------
(* Strings are sequences of one-character strings. *)

Bind(e, F(_)) == Only({ F(x) : x \in {e} })

StrEcho == <<"e", "c", "h", "o">>
StrClear == <<"c", "l", "e", "a", "r">>
StrLspci == <<"l", "s", "p", "c", "i">>
StrLs == <<"l", "s">>
StrCat == <<"c", "a", "t">>
StrNoSuchFile == <<"n", "o", " ", "s", "u", "c", "h", " ", "f", "i", "l", "e", ":", " ">>
StrNoSuchCommand ==
    <<"n", "o", " ", "s", "u", "c", "h", " ", "c", "o", "m", "m", "a", "n", "d", ":", " ">>
StrFailedToExec ==
    <<"f", "a", "i", "l", "e", "d", " ", "t", "o", " ", "e", "x", "e", "c", " ",
      "f", "i", "l", "e", ":", " ">>
StrAppExited ==
    <<"a", "p", "p", " ", "e", "x", "i", "t", "e", "d", ".", " ", "r", "e", "t", " ",
      "=", " ">>
StrNull == <<"(", "n", "u", "l", "l", ")">>
StrNewline == <<"\n">>
StrPrompt == <<">">>

\* Error::Name()
ErrName(err) ==
    CASE err = kSuccess -> <<"k", "S", "u", "c", "c", "e", "s", "s">>
      [] err = kNoEnoughMemory ->
           <<"k", "N", "o", "E", "n", "o", "u", "g", "h", "M", "e", "m", "o", "r", "y">>
      [] err = kInvalidFormat ->
           <<"k", "I", "n", "v", "a", "l", "i", "d", "F", "o", "r", "m", "a", "t">>

Digits == <<"0", "1", "2", "3", "4", "5", "6", "7", "8", "9", "a", "b", "c", "d", "e", "f">>

\* printf %d, %x, %02x, %04x
RECURSIVE DecNat(_)
DecNat(n) == IF n < 10 THEN <<Digits[n + 1]>> ELSE DecNat(n \div 10) \o <<Digits[(n % 10) + 1]>>
Dec(n) == IF n < 0 THEN <<"-">> \o DecNat(-n) ELSE DecNat(n)
RECURSIVE HexNat(_)
HexNat(n) == IF n < 16 THEN <<Digits[n + 1]>> ELSE HexNat(n \div 16) \o <<Digits[(n % 16) + 1]>>
RECURSIVE ZeroPad(_, _)
ZeroPad(str, width) == IF Len(str) >= width THEN str ELSE ZeroPad(<<"0">> \o str, width)
Hex02(n) == ZeroPad(HexNat(n), 2)
Hex04(n) == ZeroPad(HexNat(n), 4)

LowerCase == <<"a", "b", "c", "e", "f", "h", "i", "l", "o", "p", "r", "s", "t", "x", "y", "z">>
UpperCase == <<"A", "B", "C", "E", "F", "H", "I", "L", "O", "P", "R", "S", "T", "X", "Y", "Z">>
\* toupper
ToUpper(c) ==
    IF \E i \in 1 .. Len(LowerCase) : LowerCase[i] = c
    THEN UpperCase[CHOOSE i \in 1 .. Len(LowerCase) : LowerCase[i] = c]
    ELSE c

-----------------------------------------------------------------------------
(* FAT volume.  A volume is [root, fat, data]: the live entries of the root *)
(* directory cluster, the FAT and the contents of the data clusters.  A     *)
(* directory entry is [name, first_cluster, file_size, ehdr]: name the 11   *)
(* raw bytes, ehdr the ELF header and program headers the file's bytes hold *)
(* when it is an ELF image.                                                 *)

kEndOfClusterchain == 268435455
bytes_per_cluster == 2

Name83Pad(str, width) == str \o [i \in 1 .. (width - Len(str)) |-> " "]

\* The 11 bytes NameIsEqual compares with: the name upper-cased, the part
\* after a '.' starting at byte 8, padded with spaces.
RECURSIVE Name83From(_, _, _, _)
Name83From(name, i, i83, acc) ==
    IF i > Len(name) \/ i83 > 11 THEN acc
    ELSE IF name[i] = "." THEN Name83From(name, i + 1, 9, acc)
    ELSE Name83From(name, i + 1, i83 + 1, [acc EXCEPT ![i83] = ToUpper(name[i])])

Name83(name) == Name83From(name, 1, 1, [i \in 1 .. 11 |-> " "])

\* fat::NameIsEqual(entry, name)
NameIsEqual(entry, name) == entry.name = Name83(name)

\* fat::FindFile(name): the index in the root directory of the first entry
\* with that name, 0 for nullptr.
FindFile(vol, name) ==
    IF \E i \in 1 .. Len(vol.root) : NameIsEqual(vol.root[i], name)
    THEN SetMin({i \in 1 .. Len(vol.root) : NameIsEqual(vol.root[i], name)})
    ELSE 0

\* fat::NextCluster(cluster)
NextCluster(vol, cluster) ==
    IF vol.fat[cluster] >= kEndOfClusterchain - 7 THEN kEndOfClusterchain
    ELSE vol.fat[cluster]

\* fat::ReadName(entry, base, ext): trailing spaces trimmed.
RECURSIVE TrimRight(_)
TrimRight(str) ==
    IF str # <<>> /\ str[Len(str)] = " " THEN TrimRight(SubSeq(str, 1, Len(str) - 1))
    ELSE str
ReadBase(entry) == TrimRight(SubSeq(entry.name, 1, 8))
ReadExt(entry) == TrimRight(SubSeq(entry.name, 9, 11))

Take(str, n) == SubSeq(str, 1, IF n < Len(str) THEN n ELSE Len(str))

\* fat::LoadFile(buf, len, entry): the bytes of the cluster chain, at most len;
\* steps bounds the walk by the number of clusters of the volume.
RECURSIVE LoadFileFrom(_, _, _, _)
LoadFileFrom(vol, cluster, remain, steps) ==
    IF cluster = 0 \/ cluster = kEndOfClusterchain \/ steps = 0 THEN <<>>
    ELSE Take(vol.data[cluster], remain) \o
         LoadFileFrom(vol, NextCluster(vol, cluster),
                      remain - Len(Take(vol.data[cluster], remain)), steps - 1)

LoadFile(vol, entry) ==
    LoadFileFrom(vol, entry.first_cluster, entry.file_size,
                 Cardinality(DOMAIN vol.data))

ElfMagic == <<"DEL", "E", "L", "F">>

-----------------------------------------------------------------------------
(* Terminal.  The window is modelled cell by cell: text[y][x] is the glyph   *)
(* drawn in the 8x16 cell of column x, row y (" " when blank); column        *)
(* kColumns is the cell right of the text grid, inside the window's right    *)
(* margin.  linebuf_ holds the bytes linebuf_[0 .. linebuf_index_ - 1], the  *)
(* only ones the code reads before it overwrites them.  cursor_drawn is the  *)
(* argument of the last DrawCursor call, printed the characters passed to    *)
(* Terminal::Print(char) since the last call of InputKey began, and         *)
(* next_clusters the number of fat::NextCluster calls since then.            *)

kRows == 3
kColumns == 9
kLineMax == 2 * kColumns + 8
kHistorySize == 8

Rows == 0 .. (kRows - 1)
Cells == 0 .. kColumns
BlankText == [y \in Rows |-> [x \in Cells |-> " "]]

kTopLeftMargin == [x |-> 4, y |-> 24]
kBottomRightMargin == [x |-> 4, y |-> 4]
\* ToplevelWindow::InnerSize() of the window Terminal::Terminal creates
InnerSize == [x |-> kColumns * 8 + 8, y |-> kRows * 16 + 8]

\* WriteAscii(writer, CalcCursorPos(), c, color)
WriteAscii(text, x, y, c) ==
    IF x \in Cells /\ y \in Rows THEN [text EXCEPT ![y][x] = c] ELSE text

\* FillRectangle over the cells x0 .. x1 of row y with black
FillCells(text, y, x0, x1) ==
    [text EXCEPT ![y] = [x \in Cells |-> IF x >= x0 /\ x <= x1 THEN " " ELSE @[x]]]

\* Terminal::DrawCursor(visible)
DrawCursor(t, visible) == [t EXCEPT !.cursor_drawn = visible]

\* Terminal::CalcCursorPos()
CalcCursorPos(t) ==
    [x |-> kTopLeftMargin.x + 4 + 8 * t.cursor_.x,
     y |-> kTopLeftMargin.y + 4 + 16 * t.cursor_.y]

\* Scroll1 without the fill of the bottom row.
Scroll1KeepRow(t) ==
    [t EXCEPT !.text =
        [y \in Rows |-> [x \in Cells |->
            IF x < kColumns /\ y < kRows - 1 THEN t.text[y + 1][x] ELSE t.text[y][x]]]]

\* Terminal::Scroll1(): Window::Move of rows 1 .. kRows-1 up by one row, then
\* the row of the cursor is filled with black.
Scroll1(t) ==
    [t EXCEPT !.text =
        FillCells([y \in Rows |-> [x \in Cells |->
                      IF x < kColumns /\ y < kRows - 1 THEN t.text[y + 1][x]
                      ELSE t.text[y][x]]],
                  t.cursor_.y, 0, kColumns - 1)]

\* The lambda newline of Terminal::Print(char), and the same lines of InputKey.
NewLine(t) ==
    IF t.cursor_.y < kRows - 1
    THEN [t EXCEPT !.cursor_ = [x |-> 0, y |-> t.cursor_.y + 1]]
    ELSE Scroll1([t EXCEPT !.cursor_.x = 0])

\* Terminal::Print(char c)
PrintChar(t, c) ==
    IF c = "\n" THEN NewLine([t EXCEPT !.printed = Append(t.printed, c)])
    ELSE IF t.cursor_.x = kColumns - 1
    THEN NewLine([t EXCEPT !.text = WriteAscii(t.text, t.cursor_.x, t.cursor_.y, c),
                           !.printed = Append(t.printed, c)])
    ELSE [t EXCEPT !.text = WriteAscii(t.text, t.cursor_.x, t.cursor_.y, c),
                   !.cursor_.x = t.cursor_.x + 1,
                   !.printed = Append(t.printed, c)]

RECURSIVE PrintChars(_, _)
PrintChars(t, str) ==
    IF str = <<>> THEN t
    ELSE Bind(PrintChar(t, Head(str)), LAMBDA u : PrintChars(u, Tail(str)))

\* Terminal::Print(const char *s)
PrintStr(t, str) ==
    Bind(PrintChars(DrawCursor(t, FALSE), str), LAMBDA u : DrawCursor(u, TRUE))

\* Terminal::Terminal()
NewTerminal ==
    [PrintStr([cursor_ |-> [x |-> 0, y |-> 0],
               cursor_visible_ |-> FALSE,
               cursor_drawn |-> FALSE,
               linebuf_index_ |-> 0,
               linebuf_ |-> <<>>,
               cmd_history_ |-> <<>>,
               cmd_history_index_ |-> -1,
               text |-> BlankText,
               printed |-> <<>>,
               next_clusters |-> 0], StrPrompt)
     EXCEPT !.cmd_history_ = [i \in 1 .. kHistorySize |-> <<>>]]

\* Terminal::BlinkCursor(): the terminal and the rectangle returned.
BlinkCursor(t) ==
    [t |-> DrawCursor([t EXCEPT !.cursor_visible_ = ~t.cursor_visible_],
                      ~t.cursor_visible_),
     area |-> [pos |-> CalcCursorPos(t), size |-> [x |-> 7, y |-> 15]]]

\* WriteString(writer, first_pos, history, color): one glyph per cell from
\* column x on.
RECURSIVE WriteString(_, _, _, _)
WriteString(text, x, y, str) ==
    IF str = <<>> THEN text
    ELSE WriteString(WriteAscii(text, x, y, Head(str)), x + 1, y, Tail(str))

\* The index of HistoryUpDown without the test cmd_history_index_ >= 0.
HistoryIndexNoFloor(t, direction) ==
    IF direction = -1 THEN t.cmd_history_index_ - 1
    ELSE IF direction = 1 /\ t.cmd_history_index_ + 1 < Len(t.cmd_history_)
    THEN t.cmd_history_index_ + 1
    ELSE t.cmd_history_index_

\* Terminal::HistoryUpDown(direction): the terminal and the rectangle returned.
HistoryIndex(t, direction) ==
    IF direction = -1 /\ t.cmd_history_index_ >= 0 THEN t.cmd_history_index_ - 1
    ELSE IF direction = 1 /\ t.cmd_history_index_ + 1 < Len(t.cmd_history_)
    THEN t.cmd_history_index_ + 1
    ELSE t.cmd_history_index_

HistoryLineFromBack(t, index) ==
    IF index >= 0 THEN t.cmd_history_[Len(t.cmd_history_) - index] ELSE <<>>

\* history = &cmd_history_[cmd_history_index_][0], or "" at index -1
HistoryLine(t, index) == IF index >= 0 THEN t.cmd_history_[index + 1] ELSE <<>>

HistoryUpDown(t, direction) ==
    [t |-> [t EXCEPT
              !.cmd_history_index_ = HistoryIndex(t, direction),
              !.linebuf_ = HistoryLine(t, HistoryIndex(t, direction)),
              !.linebuf_index_ = Len(HistoryLine(t, HistoryIndex(t, direction))),
              !.text = WriteString(FillCells(t.text, t.cursor_.y, 1, kColumns - 1),
                                   1, t.cursor_.y,
                                   HistoryLine(t, HistoryIndex(t, direction))),
              !.cursor_.x = Len(HistoryLine(t, HistoryIndex(t, direction))) + 1],
     area |-> [pos |-> CalcCursorPos([t EXCEPT !.cursor_.x = 1]),
               size |-> [x |-> 8 * (kColumns - 1), y |-> 16]]]

-----------------------------------------------------------------------------
(* Command execution.  A kernel state k is [t, alloc, mem, stop, ex]: the   *)
(* terminal, the allocator bitmap, the page maps, whether the call in       *)
(* progress still runs ("run"), never returns ("hang": a child or a raw     *)
(* blob that does not return, a cluster chain with a cycle) or page-faulted *)
(* ("fault"), and a record ex of what the last ExecuteFile call did.  env   *)
(* holds what the environment decides: whether the program called returns,  *)
(* the value its main returns, and the string found at address 0.           *)

NoExec ==
    [called |-> FALSE, elf |-> FALSE, load_returned |-> FALSE, load_error |-> kSuccess,
     ehdr |-> <<>>, alloc_before |-> <<>>, mem_before |-> <<>>,
     alloc_loaded |-> <<>>, mem_loaded |-> <<>>, data_loaded |-> <<>>,
     setup_addr |-> 0, setup_pages |-> 0,
     entered |-> FALSE, exited |-> FALSE, ret |-> 0, cleaned |-> FALSE,
     error |-> kSuccess]

\* ExecuteFile after LoadElf returned r: the call of the entry point, the
\* "app exited" line and CleanPageMaps.
ExecuteLoaded(k, entry, env, r, xr) ==
    IF r.fault
    THEN [k |-> [k EXCEPT !.alloc = r.alloc, !.mem = r.mem, !.stop = "fault", !.ex = xr],
          error |-> kSuccess]
    ELSE IF r.error # kSuccess
    THEN [k |-> [k EXCEPT !.alloc = r.alloc, !.mem = r.mem,
                          !.ex = [xr EXCEPT !.load_returned = TRUE,
                                            !.load_error = r.error,
                                            !.error = r.error]],
          error |-> r.error]
    ELSE IF ~env.returns
    THEN [k |-> [k EXCEPT !.alloc = r.alloc, !.mem = r.mem, !.stop = "hang",
                          !.ex = [xr EXCEPT !.load_returned = TRUE, !.entered = TRUE]],
          error |-> kSuccess]
    ELSE Bind(CleanPageMaps([alloc |-> r.alloc, mem |-> r.mem],
                            GetFirstLoadAddress(entry.ehdr, 0)),
              LAMBDA c :
                [k |-> [k EXCEPT
                          !.t = PrintStr(k.t, StrAppExited \o Dec(env.ret) \o StrNewline),
                          !.alloc = c.alloc, !.mem = c.mem,
                          !.ex = [xr EXCEPT !.load_returned = TRUE, !.entered = TRUE,
                                            !.exited = TRUE, !.ret = env.ret,
                                            !.cleaned = TRUE,
                                            !.error = c.error]],
                 error |-> c.error])

\* ExecuteFile comparing three bytes of e_ident.
ExecuteFileThreeBytes(k, vol, entry, env) ==
    IF Take(LoadFile(vol, entry), 3) # Take(ElfMagic, 3)
    THEN [k |-> [k EXCEPT !.stop = IF env.returns THEN "run" ELSE "hang",
                          !.ex = [NoExec EXCEPT !.called = TRUE]],
          error |-> kSuccess]
    ELSE Bind(LoadElf([alloc |-> k.alloc, mem |-> k.mem], entry.ehdr),
              LAMBDA r :
                ExecuteLoaded(k, entry, env, r,
                              [NoExec EXCEPT !.called = TRUE, !.elf = TRUE,
                                             !.ehdr = entry.ehdr,
                                             !.alloc_before = k.alloc,
                                             !.mem_before = k.mem,
                                             !.alloc_loaded = r.alloc,
                                             !.mem_loaded = r.mem,
                                             !.data_loaded = r.data,
                                             !.setup_addr = VaddrMin(entry.ehdr),
                                             !.setup_pages = Num4kPages(entry.ehdr)]))

\* Terminal::ExecuteFile(file_entry, command, first_arg)
ExecuteFile(k, vol, entry, env) ==
    IF Take(LoadFile(vol, entry), 4) # ElfMagic
    THEN [k |-> [k EXCEPT !.stop = IF env.returns THEN "run" ELSE "hang",
                          !.ex = [NoExec EXCEPT !.called = TRUE]],
          error |-> kSuccess]
    ELSE Bind(LoadElf([alloc |-> k.alloc, mem |-> k.mem], entry.ehdr),
              LAMBDA r :
                ExecuteLoaded(k, entry, env, r,
                              [NoExec EXCEPT !.called = TRUE, !.elf = TRUE,
                                             !.ehdr = entry.ehdr,
                                             !.alloc_before = k.alloc,
                                             !.mem_before = k.mem,
                                             !.alloc_loaded = r.alloc,
                                             !.mem_loaded = r.mem,
                                             !.data_loaded = r.data,
                                             !.setup_addr = VaddrMin(entry.ehdr),
                                             !.setup_pages = Num4kPages(entry.ehdr)]))

\* strchr(&linebuf_[0], ' ') and the split into command and first_arg
FirstSpace(line) ==
    IF \E i \in 1 .. Len(line) : line[i] = " "
    THEN SetMin({i \in 1 .. Len(line) : line[i] = " "})
    ELSE 0
Command(line) ==
    IF FirstSpace(line) = 0 THEN line ELSE SubSeq(line, 1, FirstSpace(line) - 1)
HasFirstArg(line) == FirstSpace(line) # 0
FirstArgWithCommand(line) == line

FirstArg(line) == SubSeq(line, FirstSpace(line) + 1, Len(line))

RECURSIVE PrintLines(_, _)
PrintLines(t, lines) ==
    IF lines = <<>> THEN t
    ELSE Bind(PrintStr(t, Head(lines)), LAMBDA u : PrintLines(u, Tail(lines)))

\* pci::devices[0 .. num_device - 1] with the vendor id ReadVendorId returns
PciDevices ==
    << [bus |-> 0, device |-> 0, function |-> 0, vendor_id |-> 32902,
        header_type |-> 0, base |-> 6, sub |-> 0, interface |-> 0] >>

\* "%02x:%02x.%d vend=%04x head=%02x class=%02x.%02x.%02x\n"
LspciLine(dev) ==
    Hex02(dev.bus) \o <<":">> \o Hex02(dev.device) \o <<".">> \o Dec(dev.function)
      \o <<" ", "v", "e", "n", "d", "=">> \o Hex04(dev.vendor_id)
      \o <<" ", "h", "e", "a", "d", "=">> \o Hex02(dev.header_type)
      \o <<" ", "c", "l", "a", "s", "s", "=">> \o Hex02(dev.base) \o <<".">>
      \o Hex02(dev.sub) \o <<".">> \o Hex02(dev.interface) \o StrNewline

\* "%s.%s\n" or "%s\n"
LsLine(entry) ==
    IF ReadExt(entry) # <<>>
    THEN ReadBase(entry) \o <<".">> \o ReadExt(entry) \o StrNewline
    ELSE ReadBase(entry) \o StrNewline

\* The while loop of the cat command: [t, hang].
RECURSIVE CatLoop(_, _, _, _, _)
CatLoop(t, vol, cluster, remain_bytes, steps) ==
    IF cluster = 0 \/ cluster = kEndOfClusterchain THEN [t |-> t, hang |-> FALSE]
    ELSE IF steps = 0 THEN [t |-> t, hang |-> TRUE]
    ELSE Bind(PrintChars(t, Take(Take(vol.data[cluster], bytes_per_cluster), remain_bytes)),
              LAMBDA u :
                CatLoop([u EXCEPT !.next_clusters = u.next_clusters + 1],
                        vol, NextCluster(vol, cluster),
                        remain_bytes
                          - Len(Take(Take(vol.data[cluster], bytes_per_cluster),
                                     remain_bytes)),
                        steps - 1))

CatFile(k, vol, entry) ==
    Bind(CatLoop(DrawCursor(k.t, FALSE), vol, entry.first_cluster, entry.file_size,
                 Cardinality(DOMAIN vol.data)),
         LAMBDA r : [k EXCEPT !.t = IF r.hang THEN r.t ELSE DrawCursor(r.t, TRUE),
                              !.stop = IF r.hang THEN "hang" ELSE "run"])

ExecuteCommandSilent(k, vol, line, env, index) ==
    IF index = 0 THEN k ELSE ExecuteFile(k, vol, vol.root[index], env).k

\* The last branch of ExecuteLine after FindFile returned file number index.
ExecuteCommand(k, vol, line, env, index) ==
    IF index = 0
    THEN [k EXCEPT !.t = PrintLines(k.t, <<StrNoSuchCommand, Command(line), StrNewline>>)]
    ELSE Bind(ExecuteFile(k, vol, vol.root[index], env),
              LAMBDA r :
                IF r.k.stop = "run" /\ r.error # kSuccess
                THEN [r.k EXCEPT !.t = PrintLines(r.k.t, <<StrFailedToExec,
                                                          ErrName(r.error),
                                                          StrNewline>>)]
                ELSE r.k)

\* Terminal::ExecuteLine(); line is the string in linebuf_.
ExecuteLine(k, vol, line, env) ==
    IF Command(line) = StrEcho
    THEN [k EXCEPT !.t = PrintLines(k.t, IF HasFirstArg(line)
                                         THEN <<FirstArg(line), StrNewline>>
                                         ELSE <<StrNewline>>)]
    ELSE IF Command(line) = StrClear
    THEN [k EXCEPT !.t.text = [y \in Rows |-> [x \in Cells |->
                                 IF x < kColumns THEN " " ELSE k.t.text[y][x]]],
                   !.t.cursor_.y = 0]
    ELSE IF Command(line) = StrLspci
    THEN [k EXCEPT !.t = PrintLines(k.t, [i \in 1 .. Len(PciDevices) |->
                                            LspciLine(PciDevices[i])])]
    ELSE IF Command(line) = StrLs
    THEN [k EXCEPT !.t = PrintLines(k.t, [i \in 1 .. Len(vol.root) |->
                                            LsLine(vol.root[i])])]
    ELSE IF Command(line) = StrCat
    THEN IF FindFile(vol, IF HasFirstArg(line) THEN FirstArg(line) ELSE env.null_name) = 0
         THEN [k EXCEPT !.t = PrintStr(k.t, StrNoSuchFile
                                 \o (IF HasFirstArg(line) THEN FirstArg(line) ELSE StrNull)
                                 \o StrNewline)]
         ELSE CatFile(k, vol,
                      vol.root[FindFile(vol, IF HasFirstArg(line) THEN FirstArg(line)
                                             ELSE env.null_name)])
    ELSE IF Command(line) # <<>>
    THEN ExecuteCommand(k, vol, line, env, FindFile(vol, Command(line)))
    ELSE k

\* Characters and key codes InputKey tests for: '\n', '\b', the ascii value 0
\* of a key without a character, and the usage ids of the arrow keys.
kAsciiNewline == "\n"
kAsciiBackspace == "BS"
kAsciiNone == "NUL"
kKeyDown == 81
kKeyUp == 82

PushHistoryKeepAll(history, line) == <<line>> \o history

\* cmd_history_.pop_back(); cmd_history_.push_front(linebuf_)
PushHistory(history, line) ==
    <<line>> \o SubSeq(history, 1, Len(history) - 1)

\* The '\n' branch of InputKey up to the call of ExecuteLine.
EnterLine(t) ==
    NewLine([t EXCEPT
               !.cmd_history_ = IF t.linebuf_index_ > 0
                                THEN PushHistory(t.cmd_history_, t.linebuf_)
                                ELSE t.cmd_history_,
               !.linebuf_ = <<>>,
               !.linebuf_index_ = 0,
               !.cmd_history_index_ = -1])

\* The '\n' branch of InputKey from the return of ExecuteLine on.
AfterExecuteLine(k) ==
    IF k.stop # "run" THEN [k |-> k, area |-> <<>>]
    ELSE [k |-> [k EXCEPT !.t = DrawCursor(PrintStr(k.t, StrPrompt), TRUE)],
          area |-> [pos |-> kTopLeftMargin, size |-> InnerSize]]

BackspaceNoGuard(t) ==
    IF t.cursor_.x > 0
    THEN [t EXCEPT !.cursor_.x = t.cursor_.x - 1,
                   !.text = FillCells(t.text, t.cursor_.y,
                                      t.cursor_.x - 1, t.cursor_.x - 1),
                   !.linebuf_index_ = t.linebuf_index_ - 1,
                   !.linebuf_ = SubSeq(t.linebuf_, 1, t.linebuf_index_ - 1)]
    ELSE t

\* The '\b' branch of InputKey.
Backspace(t) ==
    IF t.cursor_.x > 0
    THEN [t EXCEPT !.cursor_.x = t.cursor_.x - 1,
                   !.text = FillCells(t.text, t.cursor_.y,
                                      t.cursor_.x - 1, t.cursor_.x - 1),
                   !.linebuf_index_ = IF t.linebuf_index_ > 0
                                      THEN t.linebuf_index_ - 1 ELSE 0,
                   !.linebuf_ = IF t.linebuf_index_ > 0
                                THEN SubSeq(t.linebuf_, 1, t.linebuf_index_ - 1)
                                ELSE t.linebuf_]
    ELSE t

\* The branch of InputKey for any other character.
InputChar(t, ascii) ==
    IF t.cursor_.x < kColumns - 1 /\ t.linebuf_index_ < kLineMax - 1
    THEN [t EXCEPT !.linebuf_ = Append(t.linebuf_, ascii),
                   !.linebuf_index_ = t.linebuf_index_ + 1,
                   !.text = WriteAscii(t.text, t.cursor_.x, t.cursor_.y, ascii),
                   !.cursor_.x = t.cursor_.x + 1]
    ELSE t

\* Terminal::InputKey(modifier, keycode, ascii): the kernel state and the
\* rectangle returned (<<>> when the call does not return).  InputKey starts
\* the record of what the call prints.
InputKeyFrom(k, vol, modifier, keycode, ascii, env) ==
    IF ascii = kAsciiNewline
    THEN Bind(ExecuteLine([k EXCEPT !.t = EnterLine(DrawCursor(k.t, FALSE)),
                                    !.ex = NoExec],
                          vol, k.t.linebuf_, env),
              LAMBDA r : AfterExecuteLine(r))
    ELSE IF ascii = kAsciiBackspace
    THEN [k |-> [k EXCEPT !.t = DrawCursor(Backspace(k.t), TRUE)],
          area |-> [pos |-> CalcCursorPos(Backspace(k.t)), size |-> [x |-> 16, y |-> 16]]]
    ELSE IF ascii # kAsciiNone
    THEN [k |-> [k EXCEPT !.t = DrawCursor(InputChar(k.t, ascii), TRUE)],
          area |-> [pos |-> CalcCursorPos(k.t), size |-> [x |-> 16, y |-> 16]]]
    ELSE IF keycode = kKeyDown
    THEN [k |-> [k EXCEPT !.t = DrawCursor(HistoryUpDown(k.t, -1).t, TRUE)],
          area |-> HistoryUpDown(k.t, -1).area]
    ELSE IF keycode = kKeyUp
    THEN [k |-> [k EXCEPT !.t = DrawCursor(HistoryUpDown(k.t, 1).t, TRUE)],
          area |-> HistoryUpDown(k.t, 1).area]
    ELSE [k |-> [k EXCEPT !.t = DrawCursor(k.t, TRUE)],
          area |-> [pos |-> CalcCursorPos(k.t), size |-> [x |-> 16, y |-> 16]]]

InputKey(k, vol, modifier, keycode, ascii, env) ==
    InputKeyFrom([k EXCEPT !.t.printed = <<>>, !.t.next_clusters = 0],
                 vol, modifier, keycode, ascii, env)

-----------------------------------------------------------------------------
(* SpecPaging: SetupPageMaps and CleanPageMaps called directly. *)

\* Addresses the driver maps at: a page in the middle of a table, the last
\* page of a PT, of a PD, of a PDP (the last page of a PML4 entry).
PagingAddrs ==
    { MakeAddr(p4, 0, 0, 0, 0) : p4 \in {1, LastIndex} } \cup
    { MakeAddr(p4, 0, 0, LastIndex, 0) : p4 \in {1, LastIndex} } \cup
    { MakeAddr(p4, 0, LastIndex, LastIndex, 0) : p4 \in {1, LastIndex} } \cup
    { MakeAddr(p4, LastIndex, LastIndex, LastIndex, 0) : p4 \in {1, LastIndex} }

MaxPages == 3
MaxCalls == 2

InitMem ==
    /\ \E used \in range_begin_ .. range_end_ :
          alloc_map_ = [f \in Frames |-> f < range_begin_ \/ f >= used]
    /\ page_mem = [f \in Frames |-> ZeroTable]

\* remain is the page count the level-4 SetupPageMap call returned to
\* SetupPageMaps next to the error.
NoPaging ==
    [op |-> "none", addr |-> 0, n |-> 0, error |-> kSuccess,
     free_before |-> {}, calls |-> 0, remain |-> 0]

NoLast ==
    [op |-> "none", keycode |-> 0, ascii |-> kAsciiNone, area |-> <<>>, before |-> <<>>]

NoMessage == [type |-> "none"]

NoLayers == [pos |-> <<>>, active |-> "none", layer_task_map |-> {}]

EmptyVolume == [root |-> <<>>, fat |-> <<>>, data |-> <<>>]

\* The terminal and its task before TaskTerminal starts.
InitTermVars ==
    /\ terminal = NewTerminal
    /\ stop = "run"
    /\ ex = NoExec
    /\ last = NoLast

InitTaskVars ==
    /\ pc = "start"
    /\ interrupt_flag = TRUE
    /\ task_state = "running"
    /\ mailbox = <<>>
    /\ main_mailbox = <<>>
    /\ msg = NoMessage
    /\ layers = NoLayers
    /\ posted = 0
    /\ consumed = <<>>
    /\ handled = <<>>

InitPaging ==
    /\ InitMem
    /\ pg = NoPaging
    /\ InitTermVars
    /\ volume = EmptyVolume
    /\ InitTaskVars

PagingSetup(addr, n) ==
    /\ pg.op # "setup_failed"
    /\ pg.calls < MaxCalls
    /\ \E r \in {SetupPageMaps([alloc |-> alloc_map_, mem |-> page_mem], addr, n)} :
           /\ alloc_map_' = r.alloc
           /\ page_mem' = r.mem
           /\ pg' = [op |-> IF r.error = kSuccess THEN "setup" ELSE "setup_failed",
                     addr |-> addr, n |-> n, error |-> r.error,
                     free_before |-> FreeSet(alloc_map_),
                     calls |-> pg.calls + 1,
                     remain |-> SetupPageMap([alloc |-> alloc_map_, mem |-> page_mem],
                                             kPML4Frame, 4, addr, n).value]
    /\ UNCHANGED <<term_vars, task_vars>>

PagingClean ==
    /\ pg.op = "setup"
    /\ \E r \in {CleanPageMaps([alloc |-> alloc_map_, mem |-> page_mem], pg.addr)} :
           /\ alloc_map_' = r.alloc
           /\ page_mem' = r.mem
           /\ pg' = [pg EXCEPT !.op = "clean", !.error = r.error]
    /\ UNCHANGED <<term_vars, task_vars>>

NextPaging ==
    \/ \E addr \in PagingAddrs, n \in 1 .. MaxPages : PagingSetup(addr, n)
    \/ PagingClean

SpecPaging == InitPaging /\ [][NextPaging]_vars

-----------------------------------------------------------------------------
(* SpecAlloc: the frame allocator alone.  The window starts free up to some *)
(* frame; Allocate and Free are then called in any order with any          *)
(* arguments inside the window, so every bitmap of the window is reached.  *)
(* pg records the last call: the frame returned or freed in addr, the free *)
(* set before the call in free_before, in undoes whether a Free gave back  *)
(* exactly what the call before it had allocated, and in middle the frame  *)
(* a Free took out of the middle of the three frames the call before it    *)
(* had allocated as the lowest free frames of the window (-1 otherwise; an *)
(* Allocate keeps the value of the Free before it).                        *)

NoAlloc ==
    [op |-> "none", addr |-> 0, n |-> 0, error |-> kSuccess,
     free_before |-> {}, undoes |-> FALSE, middle |-> -1]

InitAlloc ==
    /\ InitMem
    /\ pg = NoAlloc
    /\ InitTermVars
    /\ volume = EmptyVolume
    /\ InitTaskVars

\* The last call allocated the three lowest free frames of the window.
ThreeLowest ==
    /\ pg.op = "Allocate"
    /\ pg.error = kSuccess
    /\ pg.n = 3
    /\ \A f \in range_begin_ .. (pg.addr - 1) : f \notin pg.free_before

AllocAllocate(n) ==
    /\ \E r \in {Allocate(alloc_map_, n)} :
           /\ alloc_map_' = r.alloc
           /\ pg' = [op |-> "Allocate", addr |-> r.value, n |-> n, error |-> r.error,
                     free_before |-> FreeSet(alloc_map_), undoes |-> FALSE,
                     middle |-> IF pg.op = "Free" THEN pg.middle ELSE -1]
    /\ UNCHANGED <<page_mem, term_vars, task_vars>>

AllocFree(start, n) ==
    /\ start + n <= range_end_
    /\ alloc_map_' = Free(alloc_map_, start, n)
    /\ pg' = [op |-> "Free", addr |-> start, n |-> n, error |-> kSuccess,
              free_before |-> FreeSet(alloc_map_),
              undoes |-> /\ pg.op = "Allocate"
                         /\ pg.error = kSuccess
                         /\ pg.addr = start
                         /\ pg.n = n,
              middle |-> IF ThreeLowest /\ start = pg.addr + 1 /\ n = 1
                         THEN start ELSE -1]
    /\ UNCHANGED <<page_mem, term_vars, task_vars>>

NextAlloc ==
    \/ \E n \in 1 .. MaxPages : AllocAllocate(n)
    \/ \E start \in range_begin_ .. (range_end_ - 1), n \in 1 .. MaxPages :
          AllocFree(start, n)

SpecAlloc == InitAlloc /\ [][NextAlloc]_vars

-----------------------------------------------------------------------------
(* The terminal driven key by key: each step is one call of                 *)
(* Terminal::InputKey, as the kKeyPush case of TaskTerminal makes it.       *)

KernelState ==
    [t |-> terminal, alloc |-> alloc_map_, mem |-> page_mem, stop |-> stop, ex |-> ex]

SetKernelState(k) ==
    /\ terminal' = k.t
    /\ alloc_map_' = k.alloc
    /\ page_mem' = k.mem
    /\ stop' = k.stop
    /\ ex' = k.ex

RetCodes == {0, -1}
DefaultEnv == [returns |-> TRUE, ret |-> 0, null_name |-> <<>>]
Envs == [returns : BOOLEAN, ret : RetCodes, null_name : {<<>>}]

\* What the call in progress found: the cursor, the length of the line and
\* the oldest history entry.
Before ==
    [cursor_ |-> terminal.cursor_, linebuf_index_ |-> terminal.linebuf_index_,
     oldest |-> terminal.cmd_history_[kHistorySize]]

KeyPush(modifier, keycode, ascii, env) ==
    /\ stop = "run"
    /\ \E r \in {InputKey(KernelState, volume, modifier, keycode, ascii, env)} :
           /\ SetKernelState(r.k)
           /\ last' = [op |-> "InputKey", keycode |-> keycode, ascii |-> ascii,
                       area |-> r.area, before |-> Before]
    /\ UNCHANGED <<volume, pg, task_vars>>

\* HID usage ids of the keys pressed
KeyCode == [a |-> 4, enter |-> 40, backspace |-> 42]

-----------------------------------------------------------------------------
(* SpecExec: the volume holds one file "a", an ELF executable or four bytes *)
(* that are not the ELF magic; the line "a" is typed and entered once.      *)

ExecAddrs ==
    { MakeAddr(1, 0, 0, 0, 0),
      UpperHalfBase, UpperHalfBase + 1, UpperHalfBase + PageSize + 1,
      MakeAddr(TableSize \div 2, LastIndex, LastIndex, LastIndex, 0),
      MakeAddr((TableSize \div 2) + 1, 0, 0, 0, 0) }
ExecSizes == {0, 1, PageSize, PageSize + 1}
\* The bytes of the file buffer: the byte at offset o is o + 1.
ElfFile == [i \in 1 .. (2 * PageSize) |-> i]
\* The segments of SpecExec are copied whole from the start of the file.
ExecHeaders ==
    { [p_type |-> PT_LOAD, p_vaddr |-> addr, p_memsz |-> size, p_filesz |-> size,
       p_offset |-> 0] : addr \in ExecAddrs, size \in ExecSizes }
      \cup {[p_type |-> "PT_NOTE", p_vaddr |-> 0, p_memsz |-> 1, p_filesz |-> 1,
              p_offset |-> 0]}
MaxHeaders == 2
ElfImages ==
    [e_type : {ET_EXEC, "ET_DYN"},
     phdrs : UNION {[1 .. n -> ExecHeaders] : n \in 0 .. MaxHeaders},
     file : {ElfFile}]

\* Free frames at the start: two, or all of the allocator's range.
ExecUsed == {range_begin_ + 2, range_end_}

ExecVolume(image) ==
    [root |-> << [name |-> Name83(<<"a">>), first_cluster |-> 2, file_size |-> 4,
                  ehdr |-> image] >>,
     fat |-> [c \in 2 .. 3 |-> IF c = 2 THEN 3 ELSE kEndOfClusterchain],
     data |-> [c \in 2 .. 3 |-> IF c = 2 THEN <<"DEL", "E">> ELSE <<"L", "F">>]]

\* Files of four bytes that differ from the ELF magic in one byte.
ExecBlobs == { [ElfMagic EXCEPT ![i] = "x"] : i \in 1 .. 4 }
\* The image a blob would be loaded as if it were taken for an ELF file.
BlobImage ==
    [e_type |-> ET_EXEC,
     phdrs |-> << [p_type |-> PT_LOAD, p_vaddr |-> UpperHalfBase, p_memsz |-> 1,
                   p_filesz |-> 1, p_offset |-> 0] >>,
     file |-> ElfFile]
BlobVolume(bytes) ==
    [ExecVolume(BlobImage) EXCEPT
       !.data = [c \in 2 .. 3 |->
                   IF c = 2 THEN Take(bytes, bytes_per_cluster)
                   ELSE SubSeq(bytes, bytes_per_cluster + 1, Len(bytes))]]

InitExec ==
    /\ \E used \in ExecUsed :
          alloc_map_ = [f \in Frames |-> f < range_begin_ \/ f >= used]
    /\ page_mem = [f \in Frames |-> ZeroTable]
    /\ pg = NoPaging
    /\ InitTermVars
    /\ \/ \E image \in ElfImages : volume = ExecVolume(image)
       \/ \E bytes \in ExecBlobs : volume = BlobVolume(bytes)
    /\ InitTaskVars

ExecType ==
    /\ terminal.linebuf_ = <<>>
    /\ ~ex.called
    /\ KeyPush(0, KeyCode.a, "a", DefaultEnv)

ExecEnter ==
    /\ terminal.linebuf_ = <<"a">>
    /\ \E env \in Envs : KeyPush(0, KeyCode.enter, kAsciiNewline, env)

NextExec == ExecType \/ ExecEnter

SpecExec == InitExec /\ [][NextExec]_vars

-----------------------------------------------------------------------------
(* SpecLoad: as SpecExec, with images in the upper half whose segments have *)
(* a file part and a zero-filled part, in any order, with gaps between     *)
(* them, overlapping or not, and headers of another type in between.        *)

LoadAddrs ==
    { UpperHalfBase, UpperHalfBase + 1, UpperHalfBase + PageSize,
      UpperHalfBase + PageSize + 1, UpperHalfBase + 3 * PageSize }
\* <<p_memsz, p_filesz>>; the last pair has more file bytes than memory.
LoadSizes ==
    { <<0, 0>>, <<1, 0>>, <<1, 1>>, <<PageSize, PageSize>>,
      <<PageSize + 1, PageSize \div 2>>, <<1, 2>> }
LoadOffsets(filesz) == IF filesz = 0 THEN {0} ELSE {0, 1}
LoadSegments ==
    UNION { { [p_type |-> PT_LOAD, p_vaddr |-> addr, p_memsz |-> size[1],
               p_filesz |-> size[2], p_offset |-> offset] :
              offset \in LoadOffsets(size[2]) } :
            addr \in LoadAddrs, size \in LoadSizes }
      \cup {[p_type |-> "PT_NOTE", p_vaddr |-> UpperHalfBase + 6 * PageSize,
              p_memsz |-> 1, p_filesz |-> 1, p_offset |-> 0]}
LoadImages ==
    [e_type : {ET_EXEC},
     phdrs : UNION {[1 .. n -> LoadSegments] : n \in 1 .. MaxHeaders},
     file : {ElfFile}]

InitLoad ==
    /\ alloc_map_ = [f \in Frames |-> f < range_begin_]
    /\ page_mem = [f \in Frames |-> ZeroTable]
    /\ pg = NoPaging
    /\ InitTermVars
    /\ \E image \in LoadImages : volume = ExecVolume(image)
    /\ InitTaskVars

SpecLoad == InitLoad /\ [][NextExec]_vars

-----------------------------------------------------------------------------
(* SpecTerm: the terminal at the keyboard.  The lines typed are those of    *)
(* TermLines, letter by letter, with Backspace, Enter and the arrow keys in *)
(* between.                                                                 *)

TermLines == { <<"l", "s">>, <<"x">> }
TermLetters == UNION {Range(line) : line \in TermLines}

IsPrefix(str, line) == Len(str) <= Len(line) /\ str = SubSeq(line, 1, Len(str))

\* One text file F of three bytes in two clusters.
TermVolume ==
    [root |-> << [name |-> Name83(<<"f">>), first_cluster |-> 2, file_size |-> 3,
                  ehdr |-> <<>>] >>,
     fat |-> [c \in 2 .. 3 |-> IF c = 2 THEN 3 ELSE kEndOfClusterchain],
     data |-> [c \in 2 .. 3 |-> IF c = 2 THEN <<"h", "i">> ELSE <<"\n", " ">>]]

InitTerm ==
    /\ alloc_map_ = [f \in Frames |-> f < range_begin_]
    /\ page_mem = [f \in Frames |-> ZeroTable]
    /\ pg = NoPaging
    /\ InitTermVars
    /\ volume = TermVolume
    /\ InitTaskVars

TermLetter ==
    \E c \in TermLetters :
        /\ \E line \in TermLines : IsPrefix(Append(terminal.linebuf_, c), line)
        /\ KeyPush(0, 0, c, DefaultEnv)

\* The line TermOnce is entered only as the first line of the history.
TermOnce == <<"l", "s">>

TermEnter ==
    /\ terminal.linebuf_ \in TermLines \cup {<<>>}
    /\ terminal.linebuf_ = TermOnce => terminal.cmd_history_[1] = <<>>
    /\ KeyPush(0, KeyCode.enter, kAsciiNewline, DefaultEnv)

\* Backspace on an empty line is pressed only before a second line is entered.
TermBackspace ==
    /\ terminal.linebuf_index_ = 0 => terminal.cmd_history_[2] = <<>>
    /\ KeyPush(0, KeyCode.backspace, kAsciiBackspace, DefaultEnv)

TermArrow == \E keycode \in {kKeyDown, kKeyUp} : KeyPush(0, keycode, kAsciiNone, DefaultEnv)

NextTerm == TermLetter \/ TermEnter \/ TermBackspace \/ TermArrow

SpecTerm == InitTerm /\ [][NextTerm]_vars

-----------------------------------------------------------------------------
(* SpecShell: command lines with arguments and commands that fail.  The     *)
(* volume holds the one file "a", an ELF image; the lines typed are a cat   *)
(* of a file that does not exist, the file a, and the unknown command n.    *)

ShellLines == { <<"c", "a", "t", " ", "g">>, <<"a">>, <<"n">> }
ShellLetters == UNION {Range(line) : line \in ShellLines}

\* An image LoadElf rejects, and one whose only segment needs four frames.
ShellImages ==
    { [e_type |-> "ET_DYN", phdrs |-> <<>>, file |-> ElfFile],
      [e_type |-> ET_EXEC,
       phdrs |-> << [p_type |-> PT_LOAD, p_vaddr |-> UpperHalfBase, p_memsz |-> 1,
                     p_filesz |-> 1, p_offset |-> 0] >>,
       file |-> ElfFile] }

\* At most MaxLines non-empty lines are entered.
MaxLines == 2

InitShell ==
    /\ \E used \in ExecUsed :
          alloc_map_ = [f \in Frames |-> f < range_begin_ \/ f >= used]
    /\ page_mem = [f \in Frames |-> ZeroTable]
    /\ pg = NoPaging
    /\ InitTermVars
    /\ \E image \in ShellImages : volume = ExecVolume(image)
    /\ InitTaskVars

ShellLetter ==
    \E c \in ShellLetters :
        /\ \E line \in ShellLines : IsPrefix(Append(terminal.linebuf_, c), line)
        /\ KeyPush(0, 0, c, DefaultEnv)

ShellEnter ==
    /\ terminal.linebuf_ \in ShellLines \cup {<<>>}
    /\ terminal.linebuf_ # <<>> => terminal.cmd_history_[MaxLines] = <<>>
    /\ \E env \in Envs : KeyPush(0, KeyCode.enter, kAsciiNewline, env)

ShellArrow ==
    \E keycode \in {kKeyDown, kKeyUp} : KeyPush(0, keycode, kAsciiNone, DefaultEnv)

NextShell == ShellLetter \/ ShellEnter \/ ShellArrow

SpecShell == InitShell /\ [][NextShell]_vars

-----------------------------------------------------------------------------
(* SpecEcho: a freshly constructed terminal receives the keys of the line   *)
(* "echo hi" and Enter, once; the cursor timer ticks at any time.  The      *)
(* allocator and the volume are whatever the kernel has at that moment.     *)

EchoLine == <<"e", "c", "h", "o", " ", "h", "i">>

InitEcho ==
    /\ InitMem
    /\ pg = NoPaging
    /\ InitTermVars
    /\ volume \in {EmptyVolume, TermVolume}
    /\ InitTaskVars

EchoType ==
    /\ terminal.cmd_history_[1] = <<>>
    /\ Len(terminal.linebuf_) < Len(EchoLine)
    /\ IsPrefix(terminal.linebuf_, EchoLine)
    /\ KeyPush(0, 0, EchoLine[Len(terminal.linebuf_) + 1], DefaultEnv)

EchoEnter ==
    /\ terminal.cmd_history_[1] = <<>>
    /\ terminal.linebuf_ = EchoLine
    /\ \E env \in Envs : KeyPush(0, KeyCode.enter, kAsciiNewline, env)

\* A kTimerTimeout message: the task calls BlinkCursor.
EchoTick ==
    /\ stop = "run"
    /\ \E r \in {BlinkCursor(terminal)} :
          /\ terminal' = r.t
          /\ last' = [op |-> "BlinkCursor", keycode |-> 0, ascii |-> kAsciiNone,
                      area |-> r.area, before |-> Before]
    /\ UNCHANGED <<mem_vars, pg, volume, stop, ex, task_vars>>

NextEcho == EchoType \/ EchoEnter \/ EchoTick

SpecEcho == InitEcho /\ [][NextEcho]_vars

-----------------------------------------------------------------------------
(* SpecEdit: line editing on an empty volume.  The key x, Backspace, Enter  *)
(* and the arrow keys are pressed in any order and the cursor blinks in     *)
(* between, so a line of every length the terminal accepts is typed,       *)
(* erased, entered and recalled; one line enters the history.               *)

InitEdit ==
    /\ InitMem
    /\ pg = NoPaging
    /\ InitTermVars
    /\ volume = EmptyVolume
    /\ InitTaskVars

EditLetter == KeyPush(0, 0, "x", DefaultEnv)

EditBackspace == KeyPush(0, KeyCode.backspace, kAsciiBackspace, DefaultEnv)

EditEnter ==
    /\ terminal.linebuf_ # <<>>
    /\ terminal.cmd_history_[1] = <<>>
    /\ KeyPush(0, KeyCode.enter, kAsciiNewline, DefaultEnv)

EditArrow == \E keycode \in {kKeyDown, kKeyUp} : KeyPush(0, keycode, kAsciiNone, DefaultEnv)

NextEdit == EditLetter \/ EditBackspace \/ EditEnter \/ EditArrow \/ EchoTick

SpecEdit == InitEdit /\ [][NextEdit]_vars

-----------------------------------------------------------------------------
(* SpecCat: the volume holds one file f whose directory entry and cluster   *)
(* chain are arbitrary: any first cluster, any size up to a byte more than  *)
(* the two data clusters hold, any FAT entries.  The line "cat f" is typed  *)
(* and entered once.                                                        *)

CatLine == <<"c", "a", "t", " ", "f">>
CatClusters == 2 .. 3

\* Byte i of data cluster c: the clusters hold "1", "2", "3", ... in order.
CatData == [c \in CatClusters |->
              [i \in 1 .. bytes_per_cluster |-> Digits[(c - 2) * bytes_per_cluster + i + 1]]]

\* FAT entries: free, a data cluster, or an end-of-chain mark.
CatFatEntries == {0} \cup CatClusters \cup {kEndOfClusterchain - 7, kEndOfClusterchain}

CatVolumes ==
    { [root |-> << [name |-> Name83(<<"f">>), first_cluster |-> first,
                    file_size |-> size, ehdr |-> <<>>] >>,
       fat |-> fat, data |-> CatData] :
      first \in {0} \cup CatClusters,
      size \in 0 .. (2 * bytes_per_cluster + 1),
      fat \in [CatClusters -> CatFatEntries] }

InitCat ==
    /\ alloc_map_ = [f \in Frames |-> f < range_begin_]
    /\ page_mem = [f \in Frames |-> ZeroTable]
    /\ pg = NoPaging
    /\ InitTermVars
    /\ volume \in CatVolumes
    /\ InitTaskVars

CatType ==
    /\ terminal.cmd_history_[1] = <<>>
    /\ Len(terminal.linebuf_) < Len(CatLine)
    /\ IsPrefix(terminal.linebuf_, CatLine)
    /\ KeyPush(0, 0, CatLine[Len(terminal.linebuf_) + 1], DefaultEnv)

CatEnter ==
    /\ terminal.cmd_history_[1] = <<>>
    /\ terminal.linebuf_ = CatLine
    /\ KeyPush(0, KeyCode.enter, kAsciiNewline, DefaultEnv)

NextCat == CatType \/ CatEnter

SpecCat == InitCat /\ [][NextCat]_vars

-----------------------------------------------------------------------------
(* LayerManager (layer.hpp).  A layer is [id, pos, size]: its identifier,    *)
(* the origin of the layer and the size of its window.  The manager is      *)
(* [layers_, layer_stack_, latest_id_, call]: the layers in creation order, *)
(* the identifiers of the visible layers from bottom to top, the last       *)
(* identifier handed out, and a record of the last call made on the         *)
(* manager with what it returned.  Heights count from 0; a null Layer       *)
(* pointer is the identifier 0, which no layer has.                         *)

MaxLayers == 3

NewLayerManager ==
    [layers_ |-> <<>>, layer_stack_ |-> <<>>, latest_id_ |-> 0,
     call |-> [op |-> "none"]]

\* NewLayer() followed by SetWindow and Move on the layer it returned.
NewLayer(lm, pos, size) ==
    [lm EXCEPT !.latest_id_ = lm.latest_id_ + 1,
               !.layers_ = Append(lm.layers_,
                                  [id |-> lm.latest_id_ + 1, pos |-> pos, size |-> size])]

\* FindLayer(id): the layer with this identifier, or 0.
FindLayer(lm, id) ==
    IF \E i \in DOMAIN lm.layers_ : lm.layers_[i].id = id
    THEN lm.layers_[CHOOSE i \in DOMAIN lm.layers_ : lm.layers_[i].id = id]
    ELSE 0

\* The stack without the occurrences of id.
RemoveId(stack, id) == SelectSeq(stack, LAMBDA e : e # id)

\* The stack with id inserted so that it gets the index height.
InsertAt(stack, height, id) ==
    SubSeq(stack, 1, height) \o <<id>> \o SubSeq(stack, height + 1, Len(stack))

Min(a, b) == IF a < b THEN a ELSE b

\* Hide(id): the layer leaves the stack.
Hide(lm, id) ==
    [lm EXCEPT !.layer_stack_ = RemoveId(lm.layer_stack_, id)]

\* UpDown inserting without removing the occurrence there is.
UpDownKeep(lm, id, new_height) ==
    IF new_height < 0 THEN Hide(lm, id)
    ELSE [lm EXCEPT !.layer_stack_ =
                       InsertAt(lm.layer_stack_,
                                Min(new_height, Len(lm.layer_stack_)), id)]

\* UpDown(id, new_height): a negative height hides the layer; otherwise the
\* height is clamped to the size of the stack, the occurrence of the layer is
\* removed and the layer is inserted at that index of the remaining stack,
\* at its end when the index lies beyond it.
UpDown(lm, id, new_height) ==
    IF new_height < 0 THEN Hide(lm, id)
    ELSE LET height == Min(new_height, Len(lm.layer_stack_))
             rest == RemoveId(lm.layer_stack_, id)
         IN  [lm EXCEPT !.layer_stack_ = InsertAt(rest, Min(height, Len(rest)), id)]

\* GetHeight(id): the index of the layer in the stack, or -1.
GetHeight(lm, id) ==
    IF \E i \in DOMAIN lm.layer_stack_ : lm.layer_stack_[i] = id
    THEN (CHOOSE i \in DOMAIN lm.layer_stack_ : lm.layer_stack_[i] = id) - 1
    ELSE -1

\* The window rectangle of the layer contains the point.
Covers(layer, p) ==
    /\ layer.pos.x <= p.x /\ p.x < layer.pos.x + layer.size.x
    /\ layer.pos.y <= p.y /\ p.y < layer.pos.y + layer.size.y

\* The stack positions whose layer is not exclude_id and covers pos.
Hits(lm, pos, exclude_id) ==
    {i \in DOMAIN lm.layer_stack_ :
        /\ lm.layer_stack_[i] # exclude_id
        /\ Covers(FindLayer(lm, lm.layer_stack_[i]), pos)}

\* The hit test walking the stack from the bottom.
FindLayerBottomUp(lm, pos, exclude_id) ==
    IF Hits(lm, pos, exclude_id) = {} THEN 0
    ELSE lm.layer_stack_[CHOOSE i \in Hits(lm, pos, exclude_id) :
                            \A j \in Hits(lm, pos, exclude_id) : i <= j]

\* FindLayerByPosition(pos, exclude_id): the stack is walked from the top and
\* the first layer that is not exclude_id and covers pos is returned.
FindLayerByPosition(lm, pos, exclude_id) ==
    IF Hits(lm, pos, exclude_id) = {} THEN 0
    ELSE lm.layer_stack_[CHOOSE i \in Hits(lm, pos, exclude_id) :
                            \A j \in Hits(lm, pos, exclude_id) : i >= j]

(* SpecLayer: layers are created with one of two overlapping windows, and   *)
(* UpDown, Hide, GetHeight and FindLayerByPosition are called in any order  *)
(* on the layers that exist.                                                *)

LayerWindows ==
    { [pos |-> [x |-> 0, y |-> 0], size |-> [x |-> 2, y |-> 1]],
      [pos |-> [x |-> 1, y |-> 0], size |-> [x |-> 2, y |-> 1]] }

LayerPoints == [x : 0 .. 3, y : 0 .. 1]

LayerIds == 1 .. layers.latest_id_

non_layer_vars == <<mem_vars, pg, term_vars, pc, interrupt_flag, task_state, mailbox,
                    main_mailbox, msg, posted, consumed, handled>>

InitLayer ==
    /\ alloc_map_ = [f \in Frames |-> f < range_begin_]
    /\ page_mem = [f \in Frames |-> ZeroTable]
    /\ pg = NoPaging
    /\ InitTermVars
    /\ volume = EmptyVolume
    /\ pc = "start"
    /\ interrupt_flag = TRUE
    /\ task_state = "running"
    /\ mailbox = <<>>
    /\ main_mailbox = <<>>
    /\ msg = NoMessage
    /\ layers = NewLayerManager
    /\ posted = 0
    /\ consumed = <<>>
    /\ handled = <<>>

LayerNew ==
    /\ layers.latest_id_ < MaxLayers
    /\ \E w \in LayerWindows :
          layers' = [NewLayer(layers, w.pos, w.size) EXCEPT
                       !.call = [op |-> "NewLayer", id |-> layers.latest_id_ + 1]]
    /\ UNCHANGED non_layer_vars

LayerUpDown ==
    /\ \E id \in LayerIds, new_height \in -1 .. MaxLayers :
          layers' = [UpDown(layers, id, new_height) EXCEPT
                       !.call = [op |-> "UpDown", id |-> id, new_height |-> new_height]]
    /\ UNCHANGED non_layer_vars

LayerHide ==
    /\ \E id \in LayerIds :
          layers' = [Hide(layers, id) EXCEPT !.call = [op |-> "Hide", id |-> id]]
    /\ UNCHANGED non_layer_vars

LayerGetHeight ==
    /\ \E id \in LayerIds :
          layers' = [layers EXCEPT
                       !.call = [op |-> "GetHeight", id |-> id,
                                 result |-> GetHeight(layers, id)]]
    /\ UNCHANGED non_layer_vars

LayerFind ==
    /\ \E pos \in LayerPoints, exclude_id \in {0} \cup LayerIds :
          layers' = [layers EXCEPT
                       !.call = [op |-> "FindLayerByPosition", pos |-> pos,
                                 exclude_id |-> exclude_id,
                                 result |-> FindLayerByPosition(layers, pos, exclude_id)]]
    /\ UNCHANGED non_layer_vars

NextLayer ==
    \/ LayerNew
    \/ LayerUpDown
    \/ LayerHide
    \/ LayerGetHeight
    \/ LayerFind

SpecLayer == InitLayer /\ [][NextLayer]_vars

-----------------------------------------------------------------------------
(* PCI scanner (pci.hpp).  The configuration space is a function from the   *)
(* functions that answer, <<bus, device, function>>, to their registers     *)
(* [header_type, secondary]: the Header Type register (bit 7 set for a      *)
(* multi-function device, the low bits 1 for a PCI-to-PCI bridge) and the   *)
(* secondary bus number of the Bus Numbers register.  A function that does  *)
(* not answer reads the vendor id 0xffff (65535).  The scan state is        *)
(* [devices, error]: pci::devices up to num_device and the error returned   *)
(* so far.                                                                  *)

NumBuses == 2
DevicesPerBus == 2
FunctionsPerDevice == 2
MaxPresent == 3

\* The size of pci::devices (32 in the source).
MaxDevices == 8

ReadVendorId(cfg, bus, device, function) ==
    IF <<bus, device, function>> \in DOMAIN cfg THEN 1 ELSE 65535

ReadHeaderType(cfg, bus, device, function) ==
    IF <<bus, device, function>> \in DOMAIN cfg
    THEN cfg[<<bus, device, function>>].header_type ELSE 255

\* Bits 15:8 of the Bus Numbers register.
SecondaryBus(cfg, bus, device, function) ==
    cfg[<<bus, device, function>>].secondary

IsSingleFunctionDevice(header_type) == (header_type \div 128) % 2 = 0

IsBridge(header_type) == header_type % 128 = 1

\* The device is appended to pci::devices unless the array is full.
AddDevice(st, dev) ==
    IF Len(st.devices) = MaxDevices
    THEN [st EXCEPT !.error = kFull]
    ELSE [st EXCEPT !.devices = Append(st.devices, dev)]

RECURSIVE ScanBusFrom(_, _, _, _)
RECURSIVE ScanFunctionsFrom(_, _, _, _, _)

\* The function is recorded; the bus behind a bridge is scanned at once.
ScanFunction(cfg, st, bus, device, function) ==
    Bind(AddDevice(st, [bus |-> bus, device |-> device, function |-> function,
                        header_type |-> ReadHeaderType(cfg, bus, device, function)]),
         LAMBDA r :
            IF r.error # kSuccess THEN r
            ELSE IF IsBridge(ReadHeaderType(cfg, bus, device, function))
            THEN ScanBusFrom(cfg, r, SecondaryBus(cfg, bus, device, function), 0)
            ELSE r)

\* Functions function .. 7 of a multi-function device.
ScanFunctionsFrom(cfg, st, bus, device, function) ==
    IF function >= FunctionsPerDevice THEN st
    ELSE IF ReadVendorId(cfg, bus, device, function) = 65535
    THEN ScanFunctionsFrom(cfg, st, bus, device, function + 1)
    ELSE Bind(ScanFunction(cfg, st, bus, device, function),
              LAMBDA r :
                 IF r.error # kSuccess THEN r
                 ELSE ScanFunctionsFrom(cfg, r, bus, device, function + 1))

\* ScanDevice looking at the functions 1 .. 7 of every device.
ScanDeviceAllFunctions(cfg, st, bus, device) ==
    Bind(ScanFunction(cfg, st, bus, device, 0),
         LAMBDA r :
            IF r.error # kSuccess THEN r
            ELSE ScanFunctionsFrom(cfg, r, bus, device, 1))

\* Function 0 is recorded; the other functions are looked at only when the
\* header type of function 0 says multi-function.
ScanDevice(cfg, st, bus, device) ==
    Bind(ScanFunction(cfg, st, bus, device, 0),
         LAMBDA r :
            IF r.error # kSuccess THEN r
            ELSE IF IsSingleFunctionDevice(ReadHeaderType(cfg, bus, device, 0)) THEN r
            ELSE ScanFunctionsFrom(cfg, r, bus, device, 1))

\* Devices device .. 31 of the bus; a device whose function 0 does not
\* answer is skipped.
ScanBusFrom(cfg, st, bus, device) ==
    IF device >= DevicesPerBus THEN st
    ELSE IF ReadVendorId(cfg, bus, device, 0) = 65535
    THEN ScanBusFrom(cfg, st, bus, device + 1)
    ELSE Bind(ScanDevice(cfg, st, bus, device),
              LAMBDA r :
                 IF r.error # kSuccess THEN r
                 ELSE ScanBusFrom(cfg, r, bus, device + 1))

\* ScanAllBus(): num_device = 0, then bus 0.
ScanAllBus(cfg) ==
    ScanBusFrom(cfg, [devices |-> <<>>, error |-> kSuccess], 0, 0)

(* SpecPci: at most MaxPresent functions answer, anywhere on the buses and   *)
(* with any header type and secondary bus; ScanAllBus is called once.       *)

PciSlots ==
    {<<bus, device, function>> :
        bus \in 0 .. (NumBuses - 1), device \in 0 .. (DevicesPerBus - 1),
        function \in 0 .. (FunctionsPerDevice - 1)}

PciRegisters ==
    [header_type : {0, 128}, secondary : {0}]
        \cup [header_type : {1, 129}, secondary : 0 .. (NumBuses - 1)]

InitPci ==
    /\ alloc_map_ = [f \in Frames |-> f < range_begin_]
    /\ page_mem = [f \in Frames |-> ZeroTable]
    /\ \E present \in {P \in SUBSET PciSlots : Cardinality(P) <= MaxPresent} :
          \E cfg \in [present -> PciRegisters] :
             pg = [op |-> "none", config |-> cfg, devices |-> <<>>, error |-> kSuccess]
    /\ InitTermVars
    /\ volume = EmptyVolume
    /\ InitTaskVars

PciScan ==
    /\ pg.op = "none"
    /\ \E r \in {ScanAllBus(pg.config)} :
          pg' = [pg EXCEPT !.op = "ScanAllBus", !.devices = r.devices, !.error = r.error]
    /\ UNCHANGED <<mem_vars, term_vars, task_vars>>

NextPci == PciScan

SpecPci == InitPci /\ [][NextPci]_vars

-----------------------------------------------------------------------------
(* SpecTask: TaskTerminal statement by statement, with interrupt handlers   *)
(* and the other tasks that send to it.  The terminal task runs until it    *)
(* sleeps; a message is posted to it by an interrupt handler, which runs    *)
(* only while the task has interrupts enabled, or by whoever runs while the *)
(* task sleeps.                                                             *)

kTimerTimeout == "kTimerTimeout"
kKeyPush == "kKeyPush"
kLayer == "kLayer"
kLayerFinish == "kLayerFinish"
DrawArea == "DrawArea"

\* task_id of TaskTerminal and terminal->LayerID()
kTerminalTask == "terminal_task"
kTerminalLayer == "terminal_layer"
kMainTask == 1

\* MakeLayerMessage(task_id, layer_id, op, area)
MakeLayerMessage(task_id, layer_id, op, area) ==
    [type |-> kLayer, src_task |-> task_id,
     layer |-> [layer_id |-> layer_id, op |-> op,
                x |-> area.pos.x, y |-> area.pos.y,
                w |-> area.size.x, h |-> area.size.y]]

\* The file x of the volume is a raw binary, not an ELF image.
TaskVolume ==
    [root |-> << [name |-> Name83(<<"x">>), first_cluster |-> 2, file_size |-> 2,
                  ehdr |-> <<>>] >>,
     fat |-> [c \in 2 .. 2 |-> kEndOfClusterchain],
     data |-> [c \in 2 .. 2 |-> <<"h", "i">>]]

MaxMsgs == 4

\* The messages posted to the terminal task; id numbers them in posting order.
TaskMessages(id) ==
    { [type |-> kTimerTimeout, id |-> id], [type |-> kLayerFinish, id |-> id] } \cup
    { [type |-> kKeyPush, id |-> id,
       keyboard |-> [modifier |-> 0, keycode |-> key[1], ascii |-> key[2]]] :
      key \in {<<KeyCode.enter, kAsciiNewline>>, <<0, "x">>} }

InitTask ==
    /\ alloc_map_ = [f \in Frames |-> f < range_begin_]
    /\ page_mem = [f \in Frames |-> ZeroTable]
    /\ pg = NoPaging
    /\ InitTermVars
    /\ volume = TaskVolume
    /\ InitTaskVars

\* task_manager->SendMessage(id of the terminal task, m) in an interrupt
\* handler or another task: appends and wakes the task.
PostMessage ==
    /\ posted < MaxMsgs
    /\ interrupt_flag \/ task_state = "sleeping"
    /\ \E m \in TaskMessages(posted + 1) : mailbox' = Append(mailbox, m)
    /\ task_state' = "running"
    /\ posted' = posted + 1
    /\ UNCHANGED <<mem_vars, pg, term_vars, pc, interrupt_flag, main_mailbox, msg,
                   layers, consumed, handled>>

Running == task_state = "running" /\ stop = "run"

\* What __asm__("cli") and __asm__("sti") leave alone
FlagOnly ==
    UNCHANGED <<mem_vars, pg, term_vars, task_state, mailbox, main_mailbox, msg,
                layers, posted, consumed, handled>>

\* __asm__("cli") at the start of TaskTerminal
TaskStartCli ==
    /\ Running
    /\ pc = "start"
    /\ interrupt_flag' = FALSE
    /\ pc' = "init"
    /\ FlagOnly

\* new Terminal, layer_manager->Move, active_layer->Activate,
\* layer_task_map->insert
TaskInit ==
    /\ Running
    /\ pc = "init"
    /\ terminal' = NewTerminal
    /\ layers' = [pos |-> [x |-> 100, y |-> 200], active |-> kTerminalLayer,
                  layer_task_map |-> layers.layer_task_map
                                       \cup {<<kTerminalLayer, kTerminalTask>>}]
    /\ pc' = "init_done"
    /\ UNCHANGED <<mem_vars, pg, volume, stop, ex, last, interrupt_flag, task_state,
                   mailbox, main_mailbox, msg, posted, consumed, handled>>

\* __asm__("sti") before the loop
TaskStartSti ==
    /\ Running
    /\ pc = "init_done"
    /\ interrupt_flag' = TRUE
    /\ pc' = "loop"
    /\ FlagOnly

TaskLoopCliMissing ==
    /\ Running
    /\ pc = "loop"
    /\ interrupt_flag' = interrupt_flag
    /\ pc' = "receive"
    /\ FlagOnly

\* __asm__("cli") at the top of the loop
TaskLoopCli ==
    /\ Running
    /\ pc = "loop"
    /\ interrupt_flag' = FALSE
    /\ pc' = "receive"
    /\ FlagOnly

\* task.ReceiveMessage() and the test of its result
TaskReceive ==
    /\ Running
    /\ pc = "receive"
    /\ IF mailbox = <<>>
       THEN /\ msg' = NoMessage
            /\ pc' = "sleep"
            /\ UNCHANGED <<mailbox, consumed>>
       ELSE /\ msg' = Head(mailbox)
            /\ mailbox' = Tail(mailbox)
            /\ consumed' = Append(consumed, Head(mailbox))
            /\ pc' = "received"
    /\ UNCHANGED <<mem_vars, pg, term_vars, interrupt_flag, task_state, main_mailbox,
                   layers, posted, handled>>

\* task.Sleep(): the task leaves the CPU until it is woken.
TaskSleep ==
    /\ Running
    /\ pc = "sleep"
    /\ task_state' = "sleeping"
    /\ pc' = "asleep"
    /\ UNCHANGED <<mem_vars, pg, term_vars, interrupt_flag, mailbox, main_mailbox, msg,
                   layers, posted, consumed, handled>>

\* Sleep returns once the task runs again; then sti and continue.
TaskSleepSti ==
    /\ Running
    /\ pc = "asleep"
    /\ interrupt_flag' = TRUE
    /\ pc' = "loop"
    /\ FlagOnly

\* __asm__("sti") after a message was received
TaskReceivedSti ==
    /\ Running
    /\ pc = "received"
    /\ interrupt_flag' = TRUE
    /\ pc' = "dispatch"
    /\ FlagOnly

TaskTimerSkipsSend ==
    /\ Running
    /\ pc = "dispatch"
    /\ msg.type = kTimerTimeout
    /\ \E r \in {BlinkCursor(terminal)} :
          /\ terminal' = r.t
          /\ last' = [op |-> "BlinkCursor", keycode |-> 0, ascii |-> kAsciiNone,
                      area |-> r.area, before |-> Before]
          /\ handled' = Append(handled, [id |-> msg.id, op |-> "BlinkCursor",
                                         area |-> r.area])
    /\ pc' = "loop"
    /\ UNCHANGED <<mem_vars, pg, volume, stop, ex, interrupt_flag, task_state, mailbox,
                   main_mailbox, msg, layers, posted, consumed>>

\* case Message::kTimerTimeout up to MakeLayerMessage
TaskTimer ==
    /\ Running
    /\ pc = "dispatch"
    /\ msg.type = kTimerTimeout
    /\ \E r \in {BlinkCursor(terminal)} :
          /\ terminal' = r.t
          /\ last' = [op |-> "BlinkCursor", keycode |-> 0, ascii |-> kAsciiNone,
                      area |-> r.area, before |-> Before]
          /\ handled' = Append(handled, [id |-> msg.id, op |-> "BlinkCursor",
                                         area |-> r.area])
    /\ pc' = "send_cli"
    /\ UNCHANGED <<mem_vars, pg, volume, stop, ex, interrupt_flag, task_state, mailbox,
                   main_mailbox, msg, layers, posted, consumed>>

\* case Message::kKeyPush up to MakeLayerMessage
TaskKey ==
    /\ Running
    /\ pc = "dispatch"
    /\ msg.type = kKeyPush
    /\ \E env \in Envs :
         \E r \in {InputKey(KernelState, volume, msg.keyboard.modifier,
                            msg.keyboard.keycode, msg.keyboard.ascii, env)} :
             /\ SetKernelState(r.k)
             /\ last' = [op |-> "InputKey", keycode |-> msg.keyboard.keycode,
                         ascii |-> msg.keyboard.ascii, area |-> r.area,
                         before |-> Before]
             /\ handled' = IF r.k.stop = "run"
                           THEN Append(handled, [id |-> msg.id, op |-> "InputKey",
                                                 area |-> r.area])
                           ELSE handled
    /\ pc' = "send_cli"
    /\ UNCHANGED <<pg, volume, interrupt_flag, task_state, mailbox, main_mailbox, msg,
                   layers, posted, consumed>>

\* default: break
TaskDefault ==
    /\ Running
    /\ pc = "dispatch"
    /\ msg.type \notin {kTimerTimeout, kKeyPush}
    /\ handled' = Append(handled, [id |-> msg.id, op |-> "none", area |-> <<>>])
    /\ pc' = "loop"
    /\ UNCHANGED <<mem_vars, pg, term_vars, interrupt_flag, task_state, mailbox,
                   main_mailbox, msg, layers, posted, consumed>>

TaskSendCliMissing ==
    /\ Running
    /\ pc = "send_cli"
    /\ interrupt_flag' = interrupt_flag
    /\ pc' = "send"
    /\ FlagOnly

\* __asm__("cli") before SendMessage
TaskSendCli ==
    /\ Running
    /\ pc = "send_cli"
    /\ interrupt_flag' = FALSE
    /\ pc' = "send"
    /\ FlagOnly

\* task_manager->SendMessage(1, msg) with the message MakeLayerMessage built
TaskSend ==
    /\ Running
    /\ pc = "send"
    /\ main_mailbox' = Append(main_mailbox,
                              [to |-> kMainTask,
                               msg |-> MakeLayerMessage(kTerminalTask, kTerminalLayer,
                                                        DrawArea, last.area)])
    /\ pc' = "send_sti"
    /\ UNCHANGED <<mem_vars, pg, term_vars, interrupt_flag, task_state, mailbox, msg,
                   layers, posted, consumed, handled>>

\* __asm__("sti") after SendMessage
TaskSendSti ==
    /\ Running
    /\ pc = "send_sti"
    /\ interrupt_flag' = TRUE
    /\ pc' = "loop"
    /\ FlagOnly

TaskStep ==
    \/ TaskStartCli
    \/ TaskInit
    \/ TaskStartSti
    \/ TaskLoopCli
    \/ TaskReceive
    \/ TaskSleep
    \/ TaskSleepSti
    \/ TaskReceivedSti
    \/ TaskTimer
    \/ TaskKey
    \/ TaskDefault
    \/ TaskSendCli
    \/ TaskSend
    \/ TaskSendSti

NextTask == PostMessage \/ TaskStep

SpecTask == InitTask /\ [][NextTask]_vars

\* The scheduler runs the terminal task whenever it is runnable.
SpecTaskFair == SpecTask /\ WF_vars(TaskStep)

\* C1: SetupPageMaps(addr, n) followed by CleanPageMaps(addr) leaves every
\* frame that was free before the SetupPageMaps free again, also when the n
\* pages extend into the next PML4 entry.
C1_SetupCleanNoLeak ==
    pg.op = "clean" => pg.free_before \subseteq FreeSet(alloc_map_)

\* The interval [vaddr_min, vaddr_max) of an image: vaddr_min the least
\* p_vaddr and vaddr_max the greatest p_vaddr + p_memsz of its PT_LOAD headers.
ImageMin(ehdr) == SetMin({h.p_vaddr : h \in LoadHeaders(ehdr)})
ImageMax(ehdr) == SetMax({h.p_vaddr + h.p_memsz : h \in LoadHeaders(ehdr)})
PageOf(addr) == addr \div PageSize
ImagePages(ehdr) ==
    IF LoadHeaders(ehdr) = {} THEN {}
    ELSE {PageOf(a) : a \in ImageMin(ehdr) .. (ImageMax(ehdr) - 1)}

EnterReturned == last.op = "InputKey" /\ last.ascii = kAsciiNewline /\ stop = "run"

\* C2: after LoadElf returns success, every page that intersects
\* [vaddr_min, vaddr_max) is present and writable in the page map, whether or
\* not vaddr_min is page aligned.
C2_LoadedRangeMapped ==
    (ex.load_returned /\ ex.load_error = kSuccess)
        => \A page \in ImagePages(ex.ehdr) : PageMapped(ex.mem_loaded, page * PageSize)

\* C3: LoadElf returns kInvalidFormat without allocating a frame or changing
\* a page-map entry whenever e_type is not ET_EXEC, there is no PT_LOAD header,
\* or the least p_vaddr of the PT_LOAD headers is below the upper half,
\* whatever the order of the program headers.
C3_InvalidImageRejected ==
    (/\ ex.called
     /\ ex.elf
     /\ \/ ex.ehdr.e_type # ET_EXEC
        \/ LoadHeaders(ex.ehdr) = {}
        \/ ImageMin(ex.ehdr) < UpperHalfBase)
        => /\ ex.load_returned
           /\ ex.load_error = kInvalidFormat
           /\ ex.alloc_loaded = ex.alloc_before
           /\ ex.mem_loaded = ex.mem_before

\* C4: when the child's entry function returns, the terminal prints
\* "app exited. ret = <code>" and every frame LoadElf allocated for the child
\* is free again when InputKey returns to the task loop.
C4_ChildExitTearsDown ==
    (EnterReturned /\ ex.exited)
        => /\ Take(terminal.printed, Len(StrAppExited \o Dec(ex.ret)))
                = StrAppExited \o Dec(ex.ret)
           /\ FreeSet(ex.alloc_before) \subseteq FreeSet(alloc_map_)

\* C5: when LoadElf fails with an allocator error, every frame the failed
\* load had allocated is free again once the terminal has printed
\* "failed to exec file: ..." and InputKey has returned to the task loop.
C5_FailedLoadTearsDown ==
    (EnterReturned /\ ex.load_returned /\ ex.load_error = kNoEnoughMemory)
        => /\ Take(terminal.printed, Len(StrFailedToExec)) = StrFailedToExec
           /\ FreeSet(ex.alloc_before) \subseteq FreeSet(alloc_map_)


EnterStep == last'.op = "InputKey" /\ last'.ascii = kAsciiNewline /\ stop' = "run"

\* The character cell left of the cursor.
CellBeforeCursor(t) ==
    IF t.cursor_.x > 0 THEN t.text[t.cursor_.y][t.cursor_.x - 1] ELSE ""

\* C9: InputKey with '\n' makes a non-empty line the newest history entry
\* and drops the oldest of the 8, leaves the history unchanged for an empty
\* line, resets linebuf_index_ to 0 and cmd_history_index_ to -1, prints the
\* prompt '>' last, and returns the whole inner area.
C9_EnterKey ==
    [][EnterStep =>
         /\ Len(terminal'.cmd_history_) = 8
         /\ terminal.linebuf_index_ > 0 =>
              /\ terminal'.cmd_history_[1] = terminal.linebuf_
              /\ \A i \in 2 .. 8 : terminal'.cmd_history_[i] = terminal.cmd_history_[i - 1]
         /\ terminal.linebuf_index_ = 0 => terminal'.cmd_history_ = terminal.cmd_history_
         /\ terminal'.linebuf_index_ = 0
         /\ terminal'.cmd_history_index_ = -1
         /\ terminal'.printed # <<>>
         /\ terminal'.printed[Len(terminal'.printed)] = ">"
         /\ CellBeforeCursor(terminal') = ">"
         /\ last'.area = [pos |-> [x |-> 4, y |-> 24],
                          size |-> [x |-> 8 * kColumns + 8, y |-> 16 * kRows + 8]]
    ]_vars

\* A ninth line was entered and the oldest line, TermOnce, dropped.
C9_Witness ==
    /\ last.op = "InputKey" /\ last.ascii = kAsciiNewline
    /\ last.before.linebuf_index_ > 0
    /\ last.before.oldest = TermOnce
    /\ terminal.cmd_history_ = [i \in 1 .. 8 |-> <<"x">>]

BackspaceReturned == last.op = "InputKey" /\ last.ascii = kAsciiBackspace

HandlerOf(m) ==
    CASE m.type = kTimerTimeout -> "BlinkCursor"
      [] m.type = kKeyPush -> "InputKey"
      [] OTHER -> "none"

IsCall(h) == h.op # "none"
Calls == SelectSeq(handled, IsCall)

\* The send of the DrawArea message for the last call is still to come.
SendPending == pc \in {"send_cli", "send"} /\ stop = "run"

C6_Order ==
    /\ \A i \in 1 .. Len(consumed) : consumed[i].id = i
    /\ Len(handled) \in {Len(consumed), Len(consumed) - 1}
    /\ \A i \in 1 .. Len(handled) :
          /\ handled[i].id = consumed[i].id
          /\ handled[i].op = HandlerOf(consumed[i])
    /\ Len(main_mailbox) = IF SendPending THEN Len(Calls) - 1 ELSE Len(Calls)
    /\ \A i \in 1 .. Len(main_mailbox) :
          main_mailbox[i] =
            [to |-> 1,
             msg |-> [type |-> kLayer, src_task |-> kTerminalTask,
                      layer |-> [layer_id |-> kTerminalLayer, op |-> DrawArea,
                                 x |-> Calls[i].area.pos.x, y |-> Calls[i].area.pos.y,
                                 w |-> Calls[i].area.size.x,
                                 h |-> Calls[i].area.size.y]]]

C6_OtherType ==
    (pc = "dispatch" /\ pc' # pc /\ msg.type \notin {kTimerTimeout, kKeyPush})
        => /\ pc' = "loop"
           /\ UNCHANGED <<terminal, main_mailbox, mailbox, alloc_map_, page_mem, stop>>

\* C6: each consumed kTimerTimeout message causes one BlinkCursor call and
\* each consumed kKeyPush message one InputKey call, each followed by one
\* kLayer DrawArea message to task 1 with the terminal's layer id and the
\* rectangle the call returned; messages are consumed in posting order and the
\* DrawArea messages are sent in that order; a message of another type sends
\* nothing and changes no terminal state.
C6_TaskLoop == [](C6_Order) /\ [][C6_OtherType]_vars

\* A timer, a key and another message handled, two DrawArea messages sent.
C6_Witness ==
    /\ pc = "loop"
    /\ {handled[i].op : i \in 1 .. Len(handled)} = {"BlinkCursor", "InputKey", "none"}
    /\ Len(main_mailbox) = 2

Processed(id) == \E i \in 1 .. Len(handled) : handled[i].id = id

\* C7: the terminal task is never asleep while its mailbox is non-empty, and
\* under fair scheduling every message posted to it is eventually received
\* and processed, provided the processing in progress returns.
C7_NoLostWakeup ==
    /\ [](~(task_state = "sleeping" /\ mailbox # <<>>))
    /\ \A id \in 1 .. MaxMsgs : (posted >= id) ~> (Processed(id) \/ stop # "run")

\* SendMessage has woken the task inside Sleep; the message is in the mailbox.
C7_Witness ==
    /\ pc = "asleep"
    /\ task_state = "running"
    /\ mailbox # <<>>

C8_CriticalSections ==
    /\ pc \in {"init", "init_done", "receive", "received", "sleep", "asleep",
               "send", "send_sti"} => ~interrupt_flag
    /\ pc = "dispatch" => interrupt_flag

C8_PostOutside ==
    posted' # posted =>
        \/ pc \in {"start", "loop", "dispatch", "send_cli"}
        \/ task_state = "sleeping"

\* C8: ReceiveMessage, Sleep, SendMessage to task 1 and the start-up
\* registration run with interrupts disabled, interrupts are enabled again
\* before the received message is processed, and no message is posted while
\* the running terminal task is inside one of these sections.
C8_InterruptsDisabled == [](C8_CriticalSections) /\ [][C8_PostOutside]_vars

\* A message is about to be processed after a DrawArea message was sent.
C8_Witness ==
    /\ pc = "dispatch"
    /\ interrupt_flag
    /\ main_mailbox # <<>>
    /\ layers.active = kTerminalLayer

ArrowStep(keycode) ==
    /\ last'.op = "InputKey"
    /\ last'.ascii = kAsciiNone
    /\ last'.keycode = keycode
    /\ stop' = "run"

\* The terminal holds line as recalled from the history: in the line buffer
\* in full, drawn right of the prompt on the cursor's row with the rest of
\* the row blank, the cursor just behind it.
Recalled(t, line) ==
    /\ t.linebuf_ = line
    /\ t.linebuf_index_ = Len(line)
    /\ t.cursor_.x = Len(line) + 1
    /\ \A x \in 1 .. (kColumns - 1) :
          t.text[t.cursor_.y][x] = IF x <= Len(line) THEN line[x] ELSE " "

C11_Entered ==
    (EnterStep /\ terminal.linebuf_index_ > 0)
        => /\ terminal'.cmd_history_
                = <<terminal.linebuf_>> \o SubSeq(terminal.cmd_history_, 1, 7)
           /\ terminal'.cmd_history_index_ = -1

C11_Up ==
    (ArrowStep(kKeyUp) /\ terminal.cmd_history_index_ < 7)
        => /\ terminal'.cmd_history_index_ = terminal.cmd_history_index_ + 1
           /\ terminal'.cmd_history_ = terminal.cmd_history_
           /\ terminal'.cursor_.y = terminal.cursor_.y
           /\ Recalled(terminal', terminal.cmd_history_[terminal.cmd_history_index_ + 2])

C11_Down ==
    (ArrowStep(kKeyDown) /\ terminal.cmd_history_index_ >= 0)
        => /\ terminal'.cmd_history_index_ = terminal.cmd_history_index_ - 1
           /\ terminal'.cmd_history_ = terminal.cmd_history_
           /\ terminal'.cursor_.y = terminal.cursor_.y
           /\ Recalled(terminal', IF terminal.cmd_history_index_ = 0 THEN <<>>
                                  ELSE terminal.cmd_history_[terminal.cmd_history_index_])

\* C11: Enter makes the whole line typed, command and arguments, the newest
\* history entry and sets the history index to -1; each Up below index 7
\* moves the index one entry back in time and each Down at index >= 0 one
\* entry forward, and the line buffer then holds the entry at the index in
\* full (the empty line at index -1), linebuf_index_ is its length, and the
\* line is redrawn with the cursor at its end.  So k Ups after Enter recall
\* the k-th most recent line and k Downs return to the empty line at -1.
C11_HistoryRecall == [][C11_Entered /\ C11_Up /\ C11_Down]_vars

\* Two lines entered, the older one with an argument, and Up pressed twice.
C11_Witness ==
    /\ last.op = "InputKey" /\ last.ascii = kAsciiNone /\ last.keycode = kKeyUp
    /\ terminal.cmd_history_index_ = 1
    /\ terminal.cmd_history_[1] = <<"a">>
    /\ Recalled(terminal, <<"c", "a", "t", " ", "g">>)

\* Row y of the text grid shows str from column 0 on and is blank after it.
RowIs(t, y, str) ==
    \A x \in 0 .. (kColumns - 1) : t.text[y][x] = IF x < Len(str) THEN str[x + 1] ELSE " "

EchoEntered == terminal.cmd_history_[1] = EchoLine

C12_Screen ==
    EchoEntered =>
        /\ stop = "run"
        /\ RowIs(terminal, 0, StrPrompt \o EchoLine)
        /\ RowIs(terminal, 1, <<"h", "i">>)
        /\ RowIs(terminal, 2, StrPrompt)
        /\ terminal.cursor_ = [x |-> 1, y |-> 2]
        /\ terminal.printed = <<"h", "i", "\n", ">">>
        /\ ~ex.called

\* C12: from a fresh terminal, once the keys e, c, h, o, ' ', h, i and '\n'
\* have been received, and after any number of timer ticks, row 0 shows the
\* command line, row 1 the line 'hi', row 2 the prompt '>' with the cursor
\* just right of it; the call printed 'hi', a newline and the prompt and no
\* 'app exited' line, ExecuteFile was not called, and no step changes the
\* allocator bitmap or a page-map entry.
C12_EchoHi == [](C12_Screen) /\ [][UNCHANGED <<alloc_map_, page_mem>>]_vars

\* The line was entered and timer ticks followed.
C12_Witness ==
    /\ EchoEntered
    /\ last.op = "BlinkCursor"
    /\ ~terminal.cursor_visible_
    /\ terminal.text[1][0] = "h"

\* InputKey was called with '\n' on a non-empty line; the line is the newest
\* history entry.
EnterCalled ==
    last.op = "InputKey" /\ last.ascii = kAsciiNewline /\ last.before.linebuf_index_ > 0
EnteredLine == terminal.cmd_history_[1]

CatMissing(line) ==
    /\ Command(line) = StrCat
    /\ HasFirstArg(line)
    /\ FindFile(volume, FirstArg(line)) = 0

CommandMissing(line) ==
    /\ Command(line) \notin {<<>>, StrEcho, StrClear, StrLspci, StrLs, StrCat}
    /\ FindFile(volume, Command(line)) = 0

ExecFailed == ex.called /\ ex.error # kSuccess

\* The call printed str, a newline and then the prompt, returned, and did not
\* call a child's entry point.
Surfaced(str) ==
    /\ stop = "run"
    /\ terminal.printed = str \o StrNewline \o StrPrompt
    /\ ~ex.entered

\* C13: a cat argument and a command name that FindFile does not find are
\* both reported as 'no such file: <name>', a failed ExecuteFile as 'failed
\* to exec file: <kind-name>'; the child is not entered and the prompt follows.
C13_NoSuchFile ==
    EnterCalled =>
        /\ CatMissing(EnteredLine) => Surfaced(StrNoSuchFile \o FirstArg(EnteredLine))
        /\ CommandMissing(EnteredLine) => Surfaced(StrNoSuchFile \o Command(EnteredLine))
        /\ ExecFailed => Surfaced(StrFailedToExec \o ErrName(ex.error))

\* C13, amended: a cat argument that FindFile does not find is reported as
\* 'no such file: <name>', a command name that FindFile does not find as
\* 'no such command: <name>', a failed ExecuteFile as 'failed to exec file:
\* <kind-name>'; the child is not entered and the prompt follows.
C13_Amended ==
    EnterCalled =>
        /\ CatMissing(EnteredLine) => Surfaced(StrNoSuchFile \o FirstArg(EnteredLine))
        /\ CommandMissing(EnteredLine)
             => Surfaced(StrNoSuchCommand \o Command(EnteredLine))
        /\ ExecFailed => Surfaced(StrFailedToExec \o ErrName(ex.error))

\* All three reports were seen: the last call failed to load the file a,
\* and the history shows the missing cat argument or the missing command.
C13_Witness ==
    /\ EnterCalled
    /\ ExecFailed
    /\ ex.error = kNoEnoughMemory
    /\ \/ CatMissing(terminal.cmd_history_[2])
       \/ CommandMissing(terminal.cmd_history_[2])

LoadOk == ex.load_returned /\ ex.load_error = kSuccess

LoadIndexes(ehdr) == {i \in 1 .. Len(ehdr.phdrs) : ehdr.phdrs[i].p_type = PT_LOAD}
SegmentRange(h) == {h.p_vaddr + i : i \in 0 .. (h.p_memsz - 1)}

\* The PT_LOAD ranges are pairwise disjoint and no p_filesz exceeds p_memsz.
WellFormed(ehdr) ==
    /\ \A i, j \in LoadIndexes(ehdr) :
          i # j => SegmentRange(ehdr.phdrs[i]) \cap SegmentRange(ehdr.phdrs[j]) = {}
    /\ \A i \in LoadIndexes(ehdr) : ehdr.phdrs[i].p_filesz <= ehdr.phdrs[i].p_memsz

\* C14: after LoadElf returned success for an image with pairwise disjoint
\* PT_LOAD ranges and p_filesz <= p_memsz, each PT_LOAD header's p_filesz
\* bytes at p_vaddr equal the file bytes from p_offset on and the rest of
\* its p_memsz bytes are zero, in whatever order the headers come; nothing
\* outside the PT_LOAD ranges is written, and the page of a header of
\* another type is not mapped unless it lies in the span of the PT_LOAD
\* headers.
C14_SegmentsLoaded ==
    (LoadOk /\ WellFormed(ex.ehdr)) =>
        /\ \A i \in LoadIndexes(ex.ehdr) :
              /\ \A o \in 0 .. (ex.ehdr.phdrs[i].p_filesz - 1) :
                    ex.data_loaded[ex.ehdr.phdrs[i].p_vaddr + o]
                        = ex.ehdr.file[ex.ehdr.phdrs[i].p_offset + o + 1]
              /\ \A o \in ex.ehdr.phdrs[i].p_filesz .. (ex.ehdr.phdrs[i].p_memsz - 1) :
                    ex.data_loaded[ex.ehdr.phdrs[i].p_vaddr + o] = 0
        /\ DOMAIN ex.data_loaded
              = UNION {SegmentRange(ex.ehdr.phdrs[i]) : i \in LoadIndexes(ex.ehdr)}
        /\ \A i \in (1 .. Len(ex.ehdr.phdrs)) \ LoadIndexes(ex.ehdr) :
              PageOf(ex.ehdr.phdrs[i].p_vaddr) \notin ImagePages(ex.ehdr)
                  => ~PagePresent(ex.mem_loaded, ex.ehdr.phdrs[i].p_vaddr)

\* Two segments loaded, the higher one first in header order and with a
\* zero-filled tail behind its file bytes.
C14_Witness ==
    /\ LoadOk
    /\ WellFormed(ex.ehdr)
    /\ LoadIndexes(ex.ehdr) = {1, 2}
    /\ ex.ehdr.phdrs[1].p_vaddr > ex.ehdr.phdrs[2].p_vaddr
    /\ ex.ehdr.phdrs[1].p_filesz > 0
    /\ ex.ehdr.phdrs[1].p_filesz < ex.ehdr.phdrs[1].p_memsz
    /\ ex.ehdr.phdrs[1].p_offset = 1
    /\ ex.ehdr.phdrs[2].p_filesz > 0
    /\ ex.data_loaded[ex.ehdr.phdrs[1].p_vaddr] = ex.ehdr.file[2]
    /\ ex.data_loaded[ex.ehdr.phdrs[1].p_vaddr + ex.ehdr.phdrs[1].p_memsz - 1] = 0

CeilDiv(n, d) == (n + d - 1) \div d

\* The addresses of [vaddr_min, vaddr_max) that belong to no PT_LOAD segment.
GapBytes(ehdr) ==
    (ImageMin(ehdr) .. (ImageMax(ehdr) - 1))
        \ UNION {SegmentRange(ehdr.phdrs[i]) : i \in LoadIndexes(ehdr)}

MappedPages(mem) ==
    {page \in 0 .. ((AddrSpace \div PageSize) - 1) : PagePresent(mem, page * PageSize)}

\* The image of the example: a segment of one page at the start of the upper
\* half and, three pages above it, a segment of a page and a fraction of
\* which the first p_filesz bytes come from the file.
IsExampleImage(ehdr) ==
    /\ Len(ehdr.phdrs) = 2
    /\ ehdr.phdrs[1] = [p_type |-> PT_LOAD, p_vaddr |-> UpperHalfBase,
                        p_memsz |-> PageSize, p_filesz |-> PageSize, p_offset |-> 0]
    /\ ehdr.phdrs[2].p_type = PT_LOAD
    /\ ehdr.phdrs[2].p_vaddr = UpperHalfBase + 3 * PageSize
    /\ ehdr.phdrs[2].p_memsz = PageSize + 1
    /\ ehdr.phdrs[2].p_filesz = PageSize \div 2

C15_Request ==
    LoadOk =>
        /\ ex.setup_addr = ImageMin(ex.ehdr)
        /\ ex.setup_pages = CeilDiv(ImageMax(ex.ehdr) - ImageMin(ex.ehdr), PageSize)

C15_GapsMapped ==
    LoadOk => \A a \in GapBytes(ex.ehdr) : PageMapped(ex.mem_loaded, a)

C15_Example ==
    (ex.called /\ IsExampleImage(ex.ehdr)) =>
        /\ LoadOk
        /\ Cardinality(MappedPages(ex.mem_loaded)) = 5
        /\ \A o \in (PageSize \div 2) .. PageSize :
              ex.data_loaded[UpperHalfBase + 3 * PageSize + o] = 0

\* C15: LoadElf passes SetupPageMaps the address vaddr_min and the page count
\* ceil((vaddr_max - vaddr_min) / page size), taken over the whole span of
\* the PT_LOAD headers; after a successful load every page that holds an
\* address of a gap between the segments is mapped; and for the example
\* image exactly 5 pages are mapped and the bytes of the second segment
\* behind its file bytes are zero.
C15_SpanMapped == C15_Request /\ C15_GapsMapped /\ C15_Example

CatCalled == EnterCalled /\ EnteredLine = CatLine

RECURSIVE ChainBytes(_, _, _)
\* The bytes of the clusters of a chain, in chain order, over at most steps
\* clusters.
ChainBytes(vol, cluster, steps) ==
    IF cluster = 0 \/ cluster = kEndOfClusterchain \/ steps = 0 THEN <<>>
    ELSE vol.data[cluster] \o ChainBytes(vol, NextCluster(vol, cluster), steps - 1)

\* C16: for every directory entry and FAT contents, cat returns, has printed
\* exactly the first file_size bytes of the file's cluster chain, in chain
\* order, before the prompt, and has called NextCluster at most
\* ceil(file_size / bytes_per_cluster) times.
C16_CatTerminates ==
    CatCalled =>
        /\ stop = "run"
        /\ terminal.printed
              = Take(ChainBytes(volume, volume.root[1].first_cluster,
                                CeilDiv(volume.root[1].file_size, bytes_per_cluster)),
                     volume.root[1].file_size) \o StrPrompt
        /\ Len(terminal.printed) = volume.root[1].file_size + 1
        /\ terminal.next_clusters
              <= CeilDiv(volume.root[1].file_size, bytes_per_cluster)

Window == range_begin_ .. (range_end_ - 1)

\* The frames start .. start + n - 1.
Run(start, n) == start .. (start + n - 1)

\* C17: from every bitmap and for every n >= 1, a successful Allocate(n)
\* that returned start, followed by Free(start, n), leaves the bitmap exactly
\* as it was before the Allocate.
C17_AllocateFreeRestores ==
    [][(/\ pg.op = "Allocate"
        /\ pg.error = kSuccess
        /\ pg'.op = "Free"
        /\ pg'.addr = pg.addr
        /\ pg'.n = pg.n)
       => /\ pg.n >= 1
          /\ FreeSet(alloc_map_') = pg.free_before
          /\ \A f \in Frames : alloc_map_'[f] = (f \notin pg.free_before)]_vars

\* A Free(start, n) directly after the successful Allocate(n) that returned
\* start, from a bitmap with allocated frames below and above the run.
C17_Witness ==
    /\ pg.op = "Free"
    /\ pg.undoes
    /\ pg.n = 2
    /\ pg.free_before = FreeSet(alloc_map_) \ Run(pg.addr, pg.n)
    /\ Run(pg.addr, pg.n) \subseteq FreeSet(alloc_map_)
    /\ \E lo \in Window, hi \in Window :
          lo < pg.addr /\ hi > pg.addr + 1 /\ alloc_map_[lo] /\ alloc_map_[hi]

\* The run start .. start + n - 1 lies in the window and is free in am.
FitsAt(am, start, n) ==
    /\ Run(start, n) \subseteq Window
    /\ \A f \in Run(start, n) : ~am[f]

\* C18: Allocate(n) returns the lowest start of a run of n free frames that
\* lies inside [range_begin, range_end), sets exactly those n bits and returns
\* no frame outside the window; with no such run it returns kNoEnoughMemory
\* and the bitmap is unchanged.
C18_FirstFit ==
    [][pg'.op = "Allocate" =>
         IF \E s \in Window : FitsAt(alloc_map_, s, pg'.n)
         THEN /\ pg'.error = kSuccess
              /\ FitsAt(alloc_map_, pg'.addr, pg'.n)
              /\ \A s \in Window : FitsAt(alloc_map_, s, pg'.n) => pg'.addr <= s
              /\ \A f \in Frames :
                     alloc_map_'[f] = (alloc_map_[f] \/ f \in Run(pg'.addr, pg'.n))
         ELSE /\ pg'.error = kNoEnoughMemory
              /\ alloc_map_' = alloc_map_]_vars

\* C18, the scenario: three frames are allocated from a window with no free
\* frame below them, the middle one is freed, and the next Allocate(1)
\* returns the freed frame.
C18_MiddleReturned ==
    [][(pg.op = "Free" /\ pg.middle # -1 /\ pg'.op = "Allocate" /\ pg'.n = 1)
       => pg'.error = kSuccess /\ pg'.addr = pg.middle]_vars

Occurrences(stack, id) == Cardinality({i \in DOMAIN stack : stack[i] = id})

CreatedIds == {layers.layers_[i].id : i \in DOMAIN layers.layers_}

Visible(lm, id) == \E i \in DOMAIN lm.layer_stack_ : lm.layer_stack_[i] = id

\* No layer is twice in the stack, the stack holds created layers only, and
\* the identifiers grow with the order of creation.
LayerStackSound ==
    /\ \A id \in CreatedIds : Occurrences(layers.layer_stack_, id) <= 1
    /\ \A i \in DOMAIN layers.layer_stack_ : layers.layer_stack_[i] \in CreatedIds
    /\ \A i \in DOMAIN layers.layers_, j \in DOMAIN layers.layers_ :
          i < j => layers.layers_[i].id < layers.layers_[j].id

\* GetHeight is the index in the stack, or -1 for a hidden layer, and the
\* last GetHeight call returned it.
HeightConsistent ==
    /\ \A id \in CreatedIds :
          IF Visible(layers, id)
          THEN /\ GetHeight(layers, id) \in 0 .. (Len(layers.layer_stack_) - 1)
               /\ layers.layer_stack_[GetHeight(layers, id) + 1] = id
          ELSE GetHeight(layers, id) = -1
    /\ layers.call.op = "GetHeight" =>
          IF Visible(layers, layers.call.id)
          THEN layers.layer_stack_[layers.call.result + 1] = layers.call.id
          ELSE layers.call.result = -1

\* A layer NewLayer returns is not in the stack, and a hidden layer enters
\* the stack only through an UpDown of it with a height >= 0.
HiddenUntilRaised ==
    /\ layers'.call.op = "NewLayer" =>
          /\ layers'.call.id \notin CreatedIds
          /\ ~Visible(layers', layers'.call.id)
          /\ layers'.layer_stack_ = layers.layer_stack_
    /\ \A id \in 1 .. MaxLayers :
          (~Visible(layers, id) /\ Visible(layers', id)) =>
              /\ layers'.call.op = "UpDown"
              /\ layers'.call.id = id
              /\ layers'.call.new_height >= 0

\* UpDown with a negative height and Hide take the layer out of the stack
\* and leave the other layers in their order.
NegativeHides ==
    (\/ layers'.call.op = "UpDown" /\ layers'.call.new_height < 0
     \/ layers'.call.op = "Hide") =>
        /\ ~Visible(layers', layers'.call.id)
        /\ layers'.layer_stack_ = RemoveId(layers.layer_stack_, layers'.call.id)

\* C19: after any sequence of NewLayer, UpDown and Hide calls every layer is
\* at most once in layer_stack (once if visible, not at all if hidden), the
\* stack holds only layers NewLayer created, identifiers are distinct and
\* increase in creation order, a new layer is hidden until an UpDown with a
\* height >= 0, UpDown with a negative height removes the layer from the
\* stack, and GetHeight is the layer's index in the stack or -1 when hidden.
C19_LayerStack ==
    /\ [](LayerStackSound /\ HeightConsistent)
    /\ [][HiddenUntilRaised /\ NegativeHides]_vars

\* Three layers exist, the second is hidden again, the stack holds the third
\* below the first, and GetHeight of the first returned 1.
C19_Witness ==
    /\ layers.latest_id_ = 3
    /\ layers.layer_stack_ = <<3, 1>>
    /\ layers.call.op = "GetHeight"
    /\ layers.call.id = 1
    /\ layers.call.result = 1

\* UpDown with a height >= 0 puts the layer at that index, at the top when
\* the height is at least the size the stack had, and leaves the other
\* layers in their order.
PlacedAtHeight ==
    (layers'.call.op = "UpDown" /\ layers'.call.new_height >= 0) =>
        /\ layers'.layer_stack_[
               (IF layers'.call.new_height >= Len(layers.layer_stack_)
                THEN Len(layers'.layer_stack_) - 1
                ELSE layers'.call.new_height) + 1] = layers'.call.id
        /\ Occurrences(layers'.layer_stack_, layers'.call.id) = 1
        /\ RemoveId(layers'.layer_stack_, layers'.call.id)
             = RemoveId(layers.layer_stack_, layers'.call.id)

\* The layer at stack position i is not exclude_id and its window covers pos.
HitAt(i, pos, exclude_id) ==
    /\ layers.layer_stack_[i] # exclude_id
    /\ \E k \in DOMAIN layers.layers_ :
          /\ layers.layers_[k].id = layers.layer_stack_[i]
          /\ Covers(layers.layers_[k], pos)

\* The last hit test returned the topmost layer that is not excluded and
\* covers the point, or null when there is none.
TopmostFound ==
    layers.call.op = "FindLayerByPosition" =>
        IF \E i \in DOMAIN layers.layer_stack_ :
               HitAt(i, layers.call.pos, layers.call.exclude_id)
        THEN \E i \in DOMAIN layers.layer_stack_ :
               /\ layers.layer_stack_[i] = layers.call.result
               /\ HitAt(i, layers.call.pos, layers.call.exclude_id)
               /\ \A j \in DOMAIN layers.layer_stack_ :
                     j > i => ~HitAt(j, layers.call.pos, layers.call.exclude_id)
        ELSE layers.call.result = 0

\* With A at height 0 and B at height 1, UpDown(A, 1) makes the stack
\* [B, A], and a hit test at a point both cover then returns A.
RaisedAboveB ==
    \A a \in 1 .. MaxLayers, b \in 1 .. MaxLayers :
        (/\ layers.layer_stack_ = <<a, b>>
         /\ a # b
         /\ layers'.call.op = "UpDown"
         /\ layers'.call.id = a
         /\ layers'.call.new_height = 1) =>
            /\ layers'.layer_stack_ = <<b, a>>
            /\ \A p \in LayerPoints :
                  (Covers(FindLayer(layers', a), p) /\ Covers(FindLayer(layers', b), p))
                      => FindLayerByPosition(layers', p, 0) = a

\* C20: UpDown(id, h) with h >= 0 places the layer at index h of the stack,
\* at the top when h is at least the height of the stack, whether the layer
\* was hidden or in the stack; FindLayerByPosition(p, exclude) returns the
\* topmost layer of the stack other than exclude whose window contains p, or
\* null; with A at height 0 and B at height 1, UpDown(A, 1) gives [B, A] and
\* the hit test at a point both cover returns A.
C20_UpDownAndHitTest ==
    /\ [][PlacedAtHeight /\ RaisedAboveB]_vars
    /\ []TopmostFound

\* Layer 1 was raised above layer 2 and a hit test without exclusion at a
\* point both cover returned layer 1.
C20_Witness ==
    /\ layers.layer_stack_ = <<2, 1>>
    /\ layers.call.op = "FindLayerByPosition"
    /\ layers.call.exclude_id = 0
    /\ layers.call.result = 1
    /\ Covers(FindLayer(layers, 1), layers.call.pos)
    /\ Covers(FindLayer(layers, 2), layers.call.pos)
    /\ FindLayer(layers, 1).pos # FindLayer(layers, 2).pos

\* The functions of a bus in scan order: device by device, function 0 .. 7.
SlotsOfBus(bus) ==
    [i \in 1 .. (DevicesPerBus * FunctionsPerDevice) |->
        <<bus, (i - 1) \div FunctionsPerDevice, (i - 1) % FunctionsPerDevice>>]

\* The functions of a bus the scan records: those that answer, function 0
\* always and the others behind a multi-function function 0.
Scanned(cfg, bus) ==
    SelectSeq(SlotsOfBus(bus),
              LAMBDA s : /\ s \in DOMAIN cfg
                         /\ \/ s[3] = 0
                            \/ /\ <<s[1], s[2], 0>> \in DOMAIN cfg
                               /\ cfg[<<s[1], s[2], 0>>].header_type >= 128)

RECURSIVE DepthFirst(_, _, _)
\* The first n functions of the depth-first walk that has pending left to
\* visit: the head, then the secondary bus of the head if it is a bridge,
\* then the rest.
DepthFirst(cfg, pending, n) ==
    IF pending = <<>> \/ n = 0 THEN <<>>
    ELSE <<Head(pending)>> \o
         DepthFirst(cfg,
                    (IF cfg[Head(pending)].header_type % 128 = 1
                     THEN Scanned(cfg, cfg[Head(pending)].secondary)
                     ELSE <<>>) \o Tail(pending),
                    n - 1)

\* Bus 0: device 0 with header type 0, device 1 a bridge to bus 1; bus 1:
\* device 0 with header type 0.
ExampleTopology ==
    (<<0, 0, 0>> :> [header_type |-> 0, secondary |-> 0])
        @@ (<<0, 1, 0>> :> [header_type |-> 1, secondary |-> 1])
        @@ (<<1, 0, 0>> :> [header_type |-> 0, secondary |-> 0])

\* C21: ScanAllBus returns for every topology, cyclic ones included, with
\* the devices in depth-first discovery order (function 0 first, the other
\* functions only for multi-function devices, the secondary bus of a bridge
\* right after the bridge), never more devices than the table holds, and
\* kFull when the walk has more devices than that; the example topology
\* gives exactly its 3 devices in that order.
C21_ScanAllBus ==
    pg.op = "ScanAllBus" =>
        \A order \in {DepthFirst(pg.config, Scanned(pg.config, 0), MaxDevices + 1)} :
            /\ Len(pg.devices) <= MaxDevices
            /\ Len(pg.devices) = Min(Len(order), MaxDevices)
            /\ \A i \in DOMAIN pg.devices :
                  /\ <<pg.devices[i].bus, pg.devices[i].device, pg.devices[i].function>>
                       = order[i]
                  /\ pg.devices[i].header_type = pg.config[order[i]].header_type
            /\ pg.error = (IF Len(order) > MaxDevices THEN kFull ELSE kSuccess)
            /\ pg.config = ExampleTopology =>
                  /\ Len(pg.devices) = 3
                  /\ pg.devices[1].device = 0 /\ pg.devices[1].bus = 0
                  /\ pg.devices[2].device = 1 /\ pg.devices[2].bus = 0
                  /\ pg.devices[3].device = 0 /\ pg.devices[3].bus = 1

\* A scan of two buses whose bridges point at each other returned kFull with
\* a full table.
C21_Witness ==
    /\ pg.op = "ScanAllBus"
    /\ pg.error = kFull
    /\ Len(pg.devices) = MaxDevices
    /\ \E i \in DOMAIN pg.devices : pg.devices[i].bus = 1
    /\ pg.devices[MaxDevices].bus = 0

\* The entry of the given level on the walk of addr, or ZeroEntry when an
\* entry above it is not present.
RECURSIVE EntryFrom(_, _, _, _, _)
EntryFrom(mem, page_map, cur, level, addr) ==
    IF cur = level THEN mem[page_map][Part(addr, cur)]
    ELSE IF ~mem[page_map][Part(addr, cur)].present THEN ZeroEntry
    ELSE EntryFrom(mem, mem[page_map][Part(addr, cur)].addr, cur - 1, level, addr)

EntryAt(mem, level, addr) == EntryFrom(mem, kPML4Frame, 4, level, addr)

\* The n pages from the page of addr on, as page addresses.
RunPages(addr, n) == {(PageOf(addr) + i) * PageSize : i \in 0 .. (n - 1)}

\* The run ends inside the address space.
RunFits(addr, n) == (PageOf(addr) + n) * PageSize <= AddrSpace

\* The entries on the walks of the pages, each named by its level and the
\* first address it translates.
RunEntries(addr, n) ==
    {<<level, a - (a % LevelUnit(level))>> : level \in 1 .. 4, a \in RunPages(addr, n)}

\* Every level-1 entry of the address space outside the pages is as before.
OtherPagesSame(before, after, pages) ==
    \A page \in 0 .. (AddrSpace \div PageSize - 1) :
        page * PageSize \notin pages =>
            (EntryAt(after, 1, page * PageSize).present
               = EntryAt(before, 1, page * PageSize).present)

SetupReturned == pg'.op \in {"setup", "setup_failed"} /\ pg'.calls = pg.calls + 1

RECURSIVE LeadingMapped(_, _, _)
LeadingMapped(mem, addr, n) ==
    IF n = 0 \/ ~PageMapped(mem, PageOf(addr) * PageSize) THEN 0
    ELSE 1 + LeadingMapped(mem, (PageOf(addr) + 1) * PageSize, n - 1)

\* C23: when the allocator fails during SetupPageMap, at any level, the call
\* returns the allocator's error and the number of pages still unmapped then:
\* the requested count less every page mapped before the failure, those
\* mapped inside nested calls included.
C23_RemainingReported ==
    [][(SetupReturned /\ pg'.error # kSuccess /\ RunFits(pg'.addr, pg'.n)) =>
         /\ pg'.error = kNoEnoughMemory
         /\ pg'.remain = pg'.n - LeadingMapped(page_mem', pg'.addr, pg'.n)]_vars

LoadFailed == ex.load_returned /\ ex.load_error # kSuccess

\* The frames the call allocated.
LoadAllocated == FreeSet(ex.alloc_before) \ FreeSet(ex.alloc_loaded)

\* C24: a LoadElf that fails, through SetupPageMaps or before it, frees
\* nothing: no frame is free that was not free before, every frame allocated
\* before the error is still allocated and referenced by a present page-map
\* entry, every entry that was present is still present, and no segment
\* byte was copied.
C24_FailureFreesNothing ==
    LoadFailed =>
        /\ FreeSet(ex.alloc_loaded) \subseteq FreeSet(ex.alloc_before)
        /\ \A f \in LoadAllocated :
              /\ ex.alloc_loaded[f]
              /\ \E t \in Frames, i \in Indexes :
                    ex.mem_loaded[t][i].present /\ ex.mem_loaded[t][i].addr = f
        /\ \A t \in Frames, i \in Indexes :
              /\ ex.mem_before[t][i].present =>
                    /\ ex.mem_loaded[t][i].present
                    /\ ex.mem_loaded[t][i].addr = ex.mem_before[t][i].addr
              /\ (ex.mem_loaded[t][i].present /\ ~ex.mem_before[t][i].present) =>
                    ex.mem_loaded[t][i].addr \in LoadAllocated
        /\ ex.data_loaded = <<>>

\* LoadElf failed with kNoEnoughMemory after it had allocated frames.
C24_Witness ==
    /\ LoadFailed
    /\ ex.load_error = kNoEnoughMemory
    /\ Cardinality(LoadAllocated) >= 2

\* The tables of the hierarchy under the table in frame page_map of level
\* page_map_level, that table included, and the frames its present entries
\* and those of the tables beneath point at.
RECURSIVE TablesBeneath(_, _, _)
TablesBeneath(mem, page_map, page_map_level) ==
    {page_map} \cup
    (IF page_map_level = 1 THEN {}
     ELSE UNION { TablesBeneath(mem, mem[page_map][i].addr, page_map_level - 1) :
                  i \in {j \in Indexes : mem[page_map][j].present} })

PresentBeneath(mem, page_map, page_map_level) ==
    {<<t, i>> \in TablesBeneath(mem, page_map, page_map_level) \X Indexes :
        mem[t][i].present}

FramesBeneath(mem, page_map, page_map_level) ==
    {mem[e[1]][e[2]].addr : e \in PresentBeneath(mem, page_map, page_map_level)}

CleanReturned == pg.op = "setup" /\ pg'.op = "clean"

\* C25: CleanPageMaps(addr) zeroes the PML4 entry of addr and no other PML4
\* entry, frees the PDP frame that entry pointed at and every frame beneath
\* it, each through one present entry, zeroes every entry it visited, and
\* leaves every other table, and the frames allocated beneath the other PML4
\* entries, as they were.
C25_CleanOneEntry ==
    [][CleanReturned =>
         \E pdp \in {page_mem[kPML4Frame][Part(pg.addr, 4)].addr} :
         \E tables \in {TablesBeneath(page_mem, pdp, 3)} :
         \E frames \in {FramesBeneath(page_mem, pdp, 3)} :
           /\ page_mem[kPML4Frame][Part(pg.addr, 4)].present
           /\ page_mem'[kPML4Frame][Part(pg.addr, 4)] = ZeroEntry
           /\ \A i \in Indexes \ {Part(pg.addr, 4)} :
                 page_mem'[kPML4Frame][i] = page_mem[kPML4Frame][i]
           /\ FreeSet(alloc_map_') = FreeSet(alloc_map_) \cup {pdp} \cup frames
           /\ FreeSet(alloc_map_) \cap ({pdp} \cup frames) = {}
           /\ Cardinality(frames) = Cardinality(PresentBeneath(page_mem, pdp, 3))
           /\ pdp \notin frames
           /\ \A t \in tables, i \in Indexes : page_mem'[t][i] = ZeroEntry
           /\ \A t \in Frames \ (tables \cup {kPML4Frame}) : page_mem'[t] = page_mem[t]
           /\ \A i \in Indexes \ {Part(pg.addr, 4)} :
                 page_mem[kPML4Frame][i].present =>
                     \A f \in {page_mem[kPML4Frame][i].addr} \cup
                              FramesBeneath(page_mem, page_mem[kPML4Frame][i].addr, 3) :
                         alloc_map_[f] /\ alloc_map_'[f]]_vars

\* CleanPageMaps returned while another PML4 entry holds a hierarchy.
C25_Witness ==
    /\ pg.op = "clean"
    /\ ~page_mem[kPML4Frame][Part(pg.addr, 4)].present
    /\ \E i \in Indexes \ {Part(pg.addr, 4)} :
          /\ page_mem[kPML4Frame][i].present
          /\ FramesBeneath(page_mem, page_mem[kPML4Frame][i].addr, 3) # {}

ExecuteFileCalled == ~ex.called /\ ex'.called

\* memcmp(elf_header->e_ident, "\x7fELF", 4) == 0 for the file a
MagicMatches == Take(LoadFile(volume, volume.root[1]), 4) = ElfMagic

\* str occurs in printed.
Occurs(str, printed) ==
    \E i \in 0 .. (Len(printed) - Len(str)) :
        SubSeq(printed, i + 1, i + Len(str)) = str

\* C26: ExecuteFile takes the ELF path exactly when the first four bytes of
\* the file are the ELF magic; for any other file the start of the buffer is
\* called, no frame is allocated or freed, no page-map entry changes, no
\* "app exited" line is printed, and when the blob returns ExecuteFile
\* returns success, so that nothing but the prompt is printed.
C26_ElfOrBlob ==
    [][ExecuteFileCalled =>
         /\ ex'.elf <=> MagicMatches
         /\ ~MagicMatches =>
               /\ alloc_map_' = alloc_map_
               /\ page_mem' = page_mem
               /\ ~ex'.load_returned /\ ~ex'.cleaned /\ ~ex'.exited
               /\ ~Occurs(StrAppExited, terminal'.printed)
               /\ ex'.error = kSuccess
               /\ stop' \in {"run", "hang"}
               /\ stop' = "run" => terminal'.printed = StrPrompt]_vars

\* A file that differs from the ELF magic in its last byte only was called
\* and returned.
C26_Witness ==
    /\ ex.called
    /\ ~ex.elf
    /\ stop = "run"
    /\ Take(LoadFile(volume, volume.root[1]), 3) = Take(ElfMagic, 3)
    /\ ~MagicMatches

BlinkCursorReturned == last'.op = "BlinkCursor"

\* C27: every BlinkCursor call draws the cursor cell in the opposite state
\* from the one it was last drawn in, also directly after an InputKey call,
\* and returns the 7x15 rectangle at the cursor.
C27_BlinkToggles ==
    [][BlinkCursorReturned =>
         /\ terminal'.cursor_drawn # terminal.cursor_drawn
         /\ last'.area = [pos |-> CalcCursorPos(terminal), size |-> [x |-> 7, y |-> 15]]]_vars

Columns == 0 .. (kColumns - 1)

\* What a newline does to the screen and the cursor: t before, u after.
NewlineDone(t, u) ==
    /\ u.cursor_.x = 0
    /\ IF t.cursor_.y = kRows - 1
       THEN /\ u.cursor_.y = kRows - 1
            /\ \A y \in 0 .. (kRows - 2), x \in Columns : u.text[y][x] = t.text[y + 1][x]
            /\ \A x \in Columns : u.text[kRows - 1][x] = " "
       ELSE /\ u.cursor_.y = t.cursor_.y + 1
            /\ u.text = t.text

\* C28: on the screen of every reachable state and with the cursor in any
\* column, a newline from Enter, from a '\n' printed or from a character
\* printed in the last column moves rows 1 .. kRows-1 up by one row, clears
\* the bottom row and keeps cursor.y when the cursor is on the bottom row,
\* and otherwise increases cursor.y and changes no cell; cursor.x becomes 0.
C28_Newline ==
    \A x \in Columns :
      \E t \in {[terminal EXCEPT !.cursor_.x = x]} :
        /\ NewlineDone(t, EnterLine(DrawCursor(t, FALSE)))
        /\ NewlineDone(t, PrintChar(t, "\n"))
        /\ x = kColumns - 1 =>
              NewlineDone([t EXCEPT !.text = WriteAscii(t.text, x, t.cursor_.y, "x")],
                          PrintChar(t, "x"))

\* Enter was pressed with the cursor on the bottom row under two rows of text.
C28_Witness ==
    /\ last.op = "InputKey"
    /\ last.ascii = kAsciiNewline
    /\ last.before.cursor_.y = kRows - 1
    /\ terminal.cursor_.y = kRows - 1
    /\ \A y \in 0 .. (kRows - 2) : terminal.text[y][0] # " "

\* C29: in every reachable terminal state the cursor is inside the text
\* grid: 0 <= cursor.x <= kColumns-1 and 0 <= cursor.y <= kRows-1.
C29_CursorInGrid ==
    /\ terminal.cursor_.x \in 0 .. (kColumns - 1)
    /\ terminal.cursor_.y \in 0 .. (kRows - 1)

\* C30: while a line is edited the prompt stands at the start of the row of
\* the cursor, the cells after it show the characters of the line buffer and
\* the cursor is in the column after them, linebuf_index_ columns right of
\* the column after the prompt; no key moves the cursor onto the prompt.
C30_CursorAfterLine ==
    stop = "run" =>
        /\ terminal.text[terminal.cursor_.y][0] = ">"
        /\ terminal.cursor_.x = 1 + terminal.linebuf_index_
        /\ \A i \in 1 .. terminal.linebuf_index_ :
              terminal.text[terminal.cursor_.y][i] = terminal.linebuf_[i]

\* The line buffer and the history are inside their bounds.
LineAndHistoryBounded ==
    /\ terminal.linebuf_index_ \in 0 .. (kLineMax - 1)
    /\ Len(terminal.linebuf_) = terminal.linebuf_index_
    /\ terminal.cmd_history_index_ \in -1 .. (kHistorySize - 1)
    /\ Len(terminal.cmd_history_) = kHistorySize
    /\ \A i \in 1 .. kHistorySize : Len(terminal.cmd_history_[i]) <= kLineMax - 1

ArrowReturned(keycode) ==
    last'.op = "InputKey" /\ last'.ascii = kAsciiNone /\ last'.keycode = keycode

\* Down at index -1 and Up at the last index leave the index as it is.
ArrowsStopAtEnds ==
    /\ (ArrowReturned(kKeyDown) /\ terminal.cmd_history_index_ = -1)
          => terminal'.cmd_history_index_ = -1
    /\ (ArrowReturned(kKeyUp) /\ terminal.cmd_history_index_ = kHistorySize - 1)
          => terminal'.cmd_history_index_ = kHistorySize - 1

\* C31: in every reachable terminal state 0 <= linebuf_index_ <= kLineMax-1,
\* so that the NUL written on Enter and a line copied from the history fit
\* the line buffer, -1 <= cmd_history_index_ <= 7 and the history has eight
\* slots; Down at index -1 and Up at index 7 leave the index unchanged.
C31_LineAndHistory == []LineAndHistoryBounded /\ [][ArrowsStopAtEnds]_vars

\* The longest line the terminal accepts was entered and recalled, and Up
\* was pressed until the index reached the oldest slot.
C31_Witness ==
    /\ terminal.cmd_history_index_ = kHistorySize - 1
    /\ Len(terminal.cmd_history_[1]) = kColumns - 1
    /\ last.op = "InputKey"
    /\ last.keycode = kKeyUp

\* The pages of the run that exist and are mapped.
RunMapped(mem, addr, n) ==
    {a \in RunPages(addr, n) : a < AddrSpace /\ PageMapped(mem, a)}

\* C32: SetupPageMaps(addr, n) returns success only if all n pages have been
\* mapped: no page remains for the level-4 call, also when the walk reached
\* PML4 index 511, and n pages from the page of addr on are mapped.
C32_SuccessMapsAll ==
    [][(SetupReturned /\ pg'.error = kSuccess) =>
         /\ pg'.remain = 0
         /\ Cardinality(RunMapped(page_mem', pg'.addr, pg'.n)) = pg'.n]_vars

=============================================================================
